---- MODULE Spec2Model ----
(***************************************************************************)
(* The match-3 board of bevy_jam_2 (src/src/board.rs) and the part of the  *)
(* battle loop (src/src/battle.rs, cards.rs, main_state.rs) that arms and  *)
(* stops it.                                                               *)
(*                                                                         *)
(* board.rs names the state in which pickup_gem runs `Waiting`; battle.rs  *)
(* arms the board with go_to(BoardState::Ready).  The model has one value  *)
(* for both, written "Ready"; Waiting == "Ready" is the name board.rs      *)
(* uses.  board.rs never names BoardState::End or BoardState::None; they   *)
(* are values only battle.rs uses.                                         *)
(***************************************************************************)
EXTENDS Integers, Sequences, FiniteSets, TLC

\* ---------------------------------------------------------------- bounds
\* How many of the initial grids of InitGrid the battle may start from.
NumInitGrids == 6
\* The pointer stays over the first CursorRows tiles of column 0.
CursorRows == 2
\* swap_gems is not taken once the session counts MaxSwaps swaps.
MaxSwaps == 2
\* pickup_gem is not taken after MaxPickups pickups.
MaxPickups == 1
\* Element::random() follows one of the first NumFillPatterns fill patterns.
NumFillPatterns == 2
\* The Matches resource is followed up to MaxTracked groups.
MaxTracked == 2
\* A tick reads up to MaxOtherEvents completions that are not the board's.
MaxOtherEvents == 1

\* ------------------------------------------------------ program constants
BoardWidth == 6
BoardHeight == 5
MinMatch == 3

Columns == 0 .. (BoardWidth - 1)
Rows == 0 .. (BoardHeight - 1)
\* Board.tiles[x][y]: a tile is its coordinate pair.
Tile == Columns \X Rows

ElementSeq == <<"Life", "Death", "Water", "Fire", "Nature", "Electric">>
Element == {ElementSeq[i] : i \in 1 .. Len(ElementSeq)}

None == "None"
Ready == "Ready"
Waiting == Ready
Swapping == "Swapping"
Matching == "Matching"
Falling == "Falling"
End == "End"
BoardState == {None, Ready, Swapping, Matching, Falling, End}

VARIABLES
    boardState,      \* State<BoardState>
    entering,        \* the state was just replaced; its on_enter set has not run
    ticked,          \* an on_update tick has run since the state was entered
    tiles,           \* Tile.gem of every tile
    gems,            \* the alive gem entities and their Gem.element
    swapping,        \* the Swapping resource
    matches,         \* Events<Match> of the last detection pass
    matchesUnread,   \* destroy_matches and stop_matching have not read them yet
    any_matches,     \* stop_matching's Local<bool>
    matching_waiting_for,  \* stop_matching's Local<usize>
    delayed,         \* gems carrying DelayedDespawn(DestroyGem): gem -> timer order
    despawnEvents,   \* DespawnEvent(DestroyGem) not yet read by stop_matching
    fallEvents,      \* Events<Fall> of the last begin_fall
    fallUnread,      \* move_falling_gems and stop_falling have not read them yet
    falling_waiting_for,   \* stop_falling's Local<usize>
    tweens,          \* gems carrying a Fall tween: gem -> falling distance
    tweenEvents,     \* TweenCompleted(Fall) not yet read by stop_falling
    panicked,        \* a system panicked (unwrap, Vec::insert out of range)
    pickups,         \* number of pickups so far
    released,        \* a left release was read outside a drag session
    tilesAtPickup,   \* every Tile.gem as it was when the drag session in course began
    despawnsRead,    \* DespawnEvent(DestroyGem) stop_matching has read in this pass
    tweensRead,      \* TweenCompleted(Fall) stop_falling has read in this phase
    mainState, battleState, cardsState,
    tracked,         \* battle.rs Matches: the Match events of the player turn
    active_spell,    \* Player.active_spell
    enemy_health,    \* Enemy.current_health
    player_health,   \* Player.current_health
    enemy_alive,     \* the enemy entity carries Enemy and EnemyAnimator
    enemy_animation, \* EnemyAnimator.current_animation
    enemyResolved    \* EnemyTurn has been entered since the last entry to End

vars == <<boardState, entering, ticked, tiles, gems, swapping, matches,
          matchesUnread, any_matches, matching_waiting_for, delayed,
          despawnEvents, fallEvents, fallUnread, falling_waiting_for, tweens,
          tweenEvents, panicked, pickups, released, tilesAtPickup, despawnsRead, tweensRead,
          mainState, battleState, cardsState, tracked, active_spell,
          enemy_health, player_health, enemy_alive, enemy_animation,
          enemyResolved>>

\* ------------------------------------------------------------- sequences
\* Vec indices are 0-based.
RemoveAt(s, i) == SubSeq(s, 1, i) \o SubSeq(s, i + 2, Len(s))
InsertAt(s, i, e) == SubSeq(s, 1, i) \o <<e>> \o SubSeq(s, i + 1, Len(s))

\* ------------------------------------------------------------ match_gems
Alive(g) == g \in DOMAIN gems
AllAlive == \A t \in Tile : Alive(tiles[t])

\* TileInfo of a tile (gems.get(tile.gem).unwrap()).
TileInfo(t) == [tile |-> t, element |-> gems[tiles[t]]]

\* rows[y] in x order, columns[x] in y order; rows.iter().chain(&columns).
RowLine(y) == [i \in 1 .. BoardWidth |-> TileInfo(<<i - 1, y>>)]
ColumnLine(x) == [i \in 1 .. BoardHeight |-> TileInfo(<<x, i - 1>>)]
Lines == [i \in 1 .. (BoardHeight + BoardWidth) |->
            IF i <= BoardHeight THEN RowLine(i - 1)
            ELSE ColumnLine(i - BoardHeight - 1)]

\* The push with the threshold one lower.
PushIfMatch_Two(ms, m) ==
    IF Cardinality(m.tiles) >= MinMatch - 1 THEN Append(ms, m) ELSE ms
PushIfMatch(ms, m) ==
    IF Cardinality(m.tiles) >= MinMatch THEN Append(ms, m) ELSE ms

\* The scan of one line from its k-th entry on.
RECURSIVE ScanRow(_, _, _, _)
ScanRow(row, k, current_match, ms) ==
    IF k > Len(row) THEN PushIfMatch(ms, current_match)
    ELSE LET info == row[k] IN
         IF current_match.element = info.element
         THEN ScanRow(row, k + 1,
                      [current_match EXCEPT !.tiles = @ \cup {info.tile}], ms)
         ELSE ScanRow(row, k + 1,
                      [tiles |-> {info.tile}, element |-> info.element],
                      PushIfMatch(ms, current_match))

\* The runs of length >= 3 of one line.
LineMatches(row) ==
    ScanRow(row, 2, [tiles |-> {row[1].tile}, element |-> row[1].element], <<>>)

RECURSIVE ScanLines(_)
ScanLines(i) ==
    IF i > BoardHeight + BoardWidth THEN <<>>
    ELSE LineMatches(Lines[i]) \o ScanLines(i + 1)

\* The runs of length >= 3, rows first, then columns.
ScannedMatches == ScanLines(1)

\* The inner loop absorbing nothing.
MergeInner_NoMerge(ms, current, i) == [matches |-> ms, current |-> current]

\* The inner while loop: current absorbs every entry of ms it overlaps at
\* the moment it is compared; i is the 0-based position.  (The singleton
\* sets bind the loop variables to their values.)
RECURSIVE MergeInner(_, _, _)
MergeInner(ms, current, i) ==
    IF i >= Len(ms) THEN [matches |-> ms, current |-> current]
    ELSE IF ms[i + 1].tiles \cap current.tiles # {}
         THEN CHOOSE r \in
                {MergeInner(rest, linked, i) :
                    rest \in {RemoveAt(ms, i)},
                    linked \in {[current EXCEPT !.tiles = @ \cup ms[i + 1].tiles]}} :
                TRUE
         ELSE MergeInner(ms, current, i + 1)

\* The outer while loop.  Vec::insert panics when index > len.
RECURSIVE MergeOuter(_, _)
MergeOuter(ms, index) ==
    IF index >= Len(ms) THEN [panic |-> FALSE, matches |-> ms]
    ELSE CHOOSE out \in
           {IF index > Len(r.matches) THEN [panic |-> TRUE, matches |-> <<>>]
            ELSE CHOOSE next \in
                   {MergeOuter(inserted, index + 1) :
                       inserted \in {InsertAt(r.matches, index, r.current)}} :
                   TRUE :
               r \in {MergeInner(RemoveAt(ms, index), ms[index + 1], 0)}} :
           TRUE

\* What match_gems sends, or that it panicked.
MatchGems ==
    IF ~AllAlive THEN [panic |-> TRUE, matches |-> <<>>]
    ELSE MergeOuter(ScannedMatches, 0)

\* The Match events of the pass as a set of tile sets.
MatchedTiles == UNION {matches[i].tiles : i \in 1 .. Len(matches)}

\* ------------------------------------------------------------ begin_fall
NoGem == -1

\* free_gems.next() forgetting the gems already handed out.
FirstFree_IgnoreStolen(x, y, num_stolen_copy) ==
    LET above == {r \in y .. (BoardHeight - 1) : Alive(tiles[<<x, r>>])}
    IN IF above = {} THEN NoGem
       ELSE tiles[<<x, CHOOSE r \in above : \A q \in above : r <= q>>]

\* free_gems.next() looking through the column from its bottom row.
FirstFree_FromBottom(x, y, num_stolen_copy) ==
    LET alive == {r \in Rows : Alive(tiles[<<x, r>>])}
    IN IF alive = {} THEN NoGem
       ELSE tiles[<<x, CHOOSE r \in alive : \A q \in alive : r <= q>>]

\* free_gems.next() handing out the topmost gem of the column.
FirstFree_Topmost(x, y, num_stolen_copy) ==
    LET above == {r \in y .. (BoardHeight - 1) : Alive(tiles[<<x, r>>])}
    IN IF Cardinality(above) <= num_stolen_copy THEN NoGem
       ELSE tiles[<<x, CHOOSE r \in above : \A q \in above : r >= q>>]

\* free_gems.next(): the first gem above row y of column x that is alive
\* and not passed over by the copy of the stolen counter.
RECURSIVE FirstFree(_, _, _)
FirstFree(x, y, num_stolen_copy) ==
    IF y > BoardHeight - 1 THEN NoGem
    ELSE LET g == tiles[<<x, y>>]
             missing == ~Alive(g)
             stolen == num_stolen_copy > 0
             copy == IF ~missing /\ stolen THEN num_stolen_copy - 1
                     ELSE num_stolen_copy
         IN IF stolen \/ missing THEN FirstFree(x, y + 1, copy) ELSE g

\* The Fall events of column x from row y up.
RECURSIVE ColumnFalls(_, _, _, _, _)
ColumnFalls(x, y, height, num_stolen, acc) ==
    IF y > BoardHeight - 1 THEN acc
    ELSE LET missing == ~Alive(tiles[<<x, y>>])
             stolen == num_stolen > 0
             ns == IF ~missing /\ stolen THEN num_stolen - 1 ELSE num_stolen
         IN IF missing \/ stolen
            THEN LET g == FirstFree(x, y + 1, ns) IN
                 IF g # NoGem
                 THEN ColumnFalls(x, y + 1, height, ns + 1,
                        Append(acc, [tile |-> <<x, y>>, existing |-> TRUE,
                                     gem |-> g, height |-> 0]))
                 ELSE ColumnFalls(x, y + 1, height + 1, ns,
                        Append(acc, [tile |-> <<x, y>>, existing |-> FALSE,
                                     gem |-> NoGem, height |-> height + 1]))
            ELSE ColumnFalls(x, y + 1, height, ns, acc)

RECURSIVE BoardFalls(_, _)
BoardFalls(x, acc) ==
    IF x > BoardWidth - 1 THEN acc
    ELSE BoardFalls(x + 1, ColumnFalls(x, 0, 0, 0, acc))

\* begin_fall leaving out the first column.
BeginFall_FromSecondColumn == BoardFalls(1, <<>>)

\* begin_fall sending nothing for the first tile it comes to.
BeginFall_SkipLowest ==
    LET falls == BoardFalls(0, <<>>)
    IN IF falls = <<>> THEN falls ELSE Tail(falls)

\* begin_fall with a height counter that is not reset for a new column.
BeginFall_RunningHeight ==
    LET falls == BoardFalls(0, <<>>)
    IN [i \in 1 .. Len(falls) |->
          IF falls[i].existing THEN falls[i]
          ELSE [falls[i] EXCEPT
                  !.height = Cardinality({j \in 1 .. i : ~falls[j].existing})]]

\* What begin_fall sends.
BeginFall == BoardFalls(0, <<>>)

\* ------------------------------------------------------------- entities
Min(S) == CHOOSE x \in S : \A y \in S : x <= y

\* Entity ids some component or resource still names.
UsedGems ==
    DOMAIN gems \cup {tiles[t] : t \in DOMAIN tiles} \cup DOMAIN delayed
        \cup DOMAIN tweens \cup {swapping.gem}

\* The n entity ids commands.spawn() hands out next, in order: the n
\* smallest ids nothing names any more.
FreshGems(n, used) ==
    LET free == {i \in 0 .. (Cardinality(used) + n) : i \notin used}
    IN [k \in 1 .. n |->
          CHOOSE g \in free : Cardinality({h \in free : h < g}) = k - 1]

\* ------------------------------------------------------- state changes
\* state.replace(s): the on_enter set of Matching and of Falling runs before
\* the next on_update tick.  (on_enter(Waiting) is reset_timer, which only
\* rescales the countdown bar; on_exit(Swapping) is return_gems, which only
\* moves the dragged gem's transform.)
Replace(s) ==
    /\ boardState' = s
    /\ entering' = (s \in {Matching, Falling})
    /\ ticked' = FALSE

unchangedBattle == UNCHANGED <<mainState, battleState, cardsState>>
unchangedEnemy == UNCHANGED <<enemy_alive, enemy_animation, enemyResolved>>
unchangedFight ==
    UNCHANGED <<tracked, active_spell, enemy_health, player_health>> /\ unchangedEnemy
unchangedMatching ==
    UNCHANGED <<matches, matchesUnread, any_matches, matching_waiting_for,
                delayed, despawnEvents, despawnsRead>>
unchangedFalling ==
    UNCHANGED <<fallEvents, fallUnread, falling_waiting_for, tweens, tweenEvents,
                tweensRead>>

\* ------------------------------------------------------------- swapping
CursorTiles == {0} \X (0 .. (CursorRows - 1))

\* on_update(Waiting): a left press while the pointer is in tile t.
pickup_gem(t) ==
    /\ ~panicked
    /\ boardState = Waiting
    /\ t \in DOMAIN tiles
    /\ pickups < MaxPickups
    /\ swapping' = [swaps |-> 0, gem |-> tiles[t], current_tile |-> t,
                    timer_finished |-> FALSE]
    /\ Replace(Swapping)
    /\ pickups' = pickups + 1
    /\ tilesAtPickup' = tiles
    /\ UNCHANGED <<tiles, gems, panicked, released>>
    /\ unchangedMatching /\ unchangedFalling /\ unchangedBattle /\ unchangedFight

\* The swap that does not write the previous gem back.
swap_gems_Overwrite(closet) ==
    /\ ~panicked
    /\ boardState = Swapping
    /\ swapping.swaps < MaxSwaps
    /\ ~swapping.timer_finished
    /\ closet # swapping.current_tile
    /\ tiles' = [tiles EXCEPT ![closet] = swapping.gem]
    /\ swapping' = [swapping EXCEPT !.current_tile = closet, !.swaps = @ + 1]
    /\ UNCHANGED <<boardState, entering, ticked, gems, panicked, pickups, released, tilesAtPickup>>
    /\ unchangedMatching /\ unchangedFalling /\ unchangedBattle /\ unchangedFight

\* The swap leaving the counter alone.
swap_gems_NoCount(closet) ==
    /\ ~panicked
    /\ boardState = Swapping
    /\ swapping.swaps < MaxSwaps
    /\ ~swapping.timer_finished
    /\ closet # swapping.current_tile
    /\ tiles' = [tiles EXCEPT ![closet] = swapping.gem,
                              ![swapping.current_tile] = tiles[closet]]
    /\ swapping' = [swapping EXCEPT !.current_tile = closet]
    /\ UNCHANGED <<boardState, entering, ticked, gems, panicked, pickups, released, tilesAtPickup>>
    /\ unchangedMatching /\ unchangedFalling /\ unchangedBattle /\ unchangedFight

\* The swap that does not move current_tile.
swap_gems_KeepTile(closet) ==
    /\ ~panicked
    /\ boardState = Swapping
    /\ swapping.swaps < MaxSwaps
    /\ ~swapping.timer_finished
    /\ closet # swapping.current_tile
    /\ tiles' = [tiles EXCEPT ![closet] = swapping.gem,
                              ![swapping.current_tile] = tiles[closet]]
    /\ swapping' = [swapping EXCEPT !.swaps = @ + 1]
    /\ UNCHANGED <<boardState, entering, ticked, gems, panicked, pickups, released, tilesAtPickup>>
    /\ unchangedMatching /\ unchangedFalling /\ unchangedBattle /\ unchangedFight

\* on_update(Swapping): the tile closest to the pointer is closet.  drop_gem
\* runs after update_timer in the frame, so no swap follows the timer's end.
swap_gems(closet) ==
    /\ ~panicked
    /\ boardState = Swapping
    /\ swapping.swaps < MaxSwaps
    /\ ~swapping.timer_finished
    /\ closet # swapping.current_tile
    /\ LET previous_gem == tiles[closet] IN
       tiles' = [tiles EXCEPT ![closet] = swapping.gem,
                              ![swapping.current_tile] = previous_gem]
    /\ swapping' = [swapping EXCEPT !.current_tile = closet, !.swaps = @ + 1]
    /\ UNCHANGED <<boardState, entering, ticked, gems, panicked, pickups, released, tilesAtPickup>>
    /\ unchangedMatching /\ unchangedFalling /\ unchangedBattle /\ unchangedFight

\* update_timer ticking only from the second swap on.
update_timer_AfterTwo ==
    /\ ~panicked
    /\ boardState = Swapping
    /\ swapping.swaps > 1
    /\ ~swapping.timer_finished
    /\ swapping' = [swapping EXCEPT !.timer_finished = TRUE]
    /\ UNCHANGED <<boardState, entering, ticked, tiles, gems, panicked, pickups, released, tilesAtPickup>>
    /\ unchangedMatching /\ unchangedFalling /\ unchangedBattle /\ unchangedFight

\* on_update(Swapping): the tick with which the 9 s timer runs out.  The
\* timer is ticked only once a swap has happened.
update_timer ==
    /\ ~panicked
    /\ boardState = Swapping
    /\ swapping.swaps > 0
    /\ ~swapping.timer_finished
    /\ swapping' = [swapping EXCEPT !.timer_finished = TRUE]
    /\ UNCHANGED <<boardState, entering, ticked, tiles, gems, panicked, pickups, released, tilesAtPickup>>
    /\ unchangedMatching /\ unchangedFalling /\ unchangedBattle /\ unchangedFight

\* The drop going to Matching only if the grid differs from that at pickup.
drop_gem_NetChange(drop) ==
    /\ ~panicked
    /\ boardState = Swapping
    /\ drop \/ swapping.timer_finished
    /\ Replace(IF tiles # tilesAtPickup THEN Matching ELSE Waiting)
    /\ tilesAtPickup' = <<>>
    /\ UNCHANGED <<tiles, gems, swapping, panicked, pickups, released>>
    /\ unchangedMatching /\ unchangedFalling /\ unchangedBattle /\ unchangedFight

\* The drop going to Matching whatever the counter.
drop_gem_AlwaysMatch(drop) ==
    /\ ~panicked
    /\ boardState = Swapping
    /\ drop \/ swapping.timer_finished
    /\ Replace(Matching)
    /\ tilesAtPickup' = <<>>
    /\ UNCHANGED <<tiles, gems, swapping, panicked, pickups, released>>
    /\ unchangedMatching /\ unchangedFalling /\ unchangedBattle /\ unchangedFight

\* on_update(Swapping): drop is whether a left release came last this frame.
drop_gem(drop) ==
    /\ ~panicked
    /\ boardState = Swapping
    /\ drop \/ swapping.timer_finished
    /\ Replace(IF swapping.swaps > 0 THEN Matching ELSE Waiting)
    /\ tilesAtPickup' = <<>>
    /\ UNCHANGED <<tiles, gems, swapping, panicked, pickups, released>>
    /\ unchangedMatching /\ unchangedFalling /\ unchangedBattle /\ unchangedFight

\* The frames of left-button events that end with a release.
ReleaseFrames == {<<"Released">>, <<"Pressed", "Released">>}

\* The fold taking any left-button event for a press.
start_pickup_Any(events) == Len(events) > 0

\* .fold(false, |_, current| current.state == ButtonState::Pressed)
start_pickup(events) == Len(events) > 0 /\ events[Len(events)] = "Pressed"

\* A frame outside Swapping whose left-button events are `events`, the pointer
\* in tile t.  In Waiting pickup_gem reads them; in the other states no
\* system of the board does.
left_released(events, t) ==
    /\ ~panicked
    /\ boardState # Swapping
    /\ events \in ReleaseFrames
    /\ released' = TRUE
    /\ IF boardState = Waiting /\ start_pickup(events) /\ t \in DOMAIN tiles
       THEN /\ swapping' = [swaps |-> 0, gem |-> tiles[t], current_tile |-> t,
                            timer_finished |-> FALSE]
            /\ Replace(Swapping)
            /\ pickups' = pickups + 1
            /\ tilesAtPickup' = tiles
       ELSE UNCHANGED <<boardState, entering, ticked, swapping, pickups, tilesAtPickup>>
    /\ UNCHANGED <<tiles, gems, panicked>>
    /\ unchangedMatching /\ unchangedFalling /\ unchangedBattle /\ unchangedFight

\* ------------------------------------------------------------- matching
RECURSIVE SumOfSizes(_, _)
SumOfSizes(ms, i) ==
    IF i > Len(ms) THEN 0 ELSE Cardinality(ms[i].tiles) + SumOfSizes(ms, i + 1)

Restrict(f, S) == [x \in S |-> f[x]]

\* The pass taking the gems of the groups it reports off the board at once.
match_gems_Consuming ==
    /\ ~panicked
    /\ boardState = Matching
    /\ entering
    /\ \E r \in {MatchGems} :
       /\ panicked' = r.panic
       /\ matches' = r.matches
       /\ matchesUnread' = ~r.panic
       /\ entering' = r.panic
       /\ gems' = Restrict(gems, DOMAIN gems \
                     {tiles[t] : t \in UNION {r.matches[i].tiles :
                                                i \in 1 .. Len(r.matches)}})
    /\ despawnsRead' = 0
    /\ UNCHANGED <<boardState, ticked, tiles, swapping, any_matches,
                   matching_waiting_for, delayed, despawnEvents, pickups, released, tilesAtPickup>>
    /\ unchangedFalling /\ unchangedBattle /\ unchangedFight

\* on_enter(Matching).
match_gems ==
    /\ ~panicked
    /\ boardState = Matching
    /\ entering
    /\ \E r \in {MatchGems} :
       /\ panicked' = r.panic
       /\ matches' = r.matches
       /\ matchesUnread' = ~r.panic
       /\ entering' = r.panic
    /\ despawnsRead' = 0
    /\ UNCHANGED <<boardState, ticked, tiles, gems, swapping, any_matches,
                   matching_waiting_for, delayed, despawnEvents, pickups, released, tilesAtPickup>>
    /\ unchangedFalling /\ unchangedBattle /\ unchangedFight

\* The gems of the tiles of the unread Match events; the DelayedDespawn of
\* the i-th event runs out 0.2 s after that of the (i-1)-th, those of one
\* event together (delay_between_gems is 0).
DestroyOrder(g) ==
    CHOOSE i \in 1 .. Len(matches) :
        /\ \E t \in matches[i].tiles : tiles[t] = g
        /\ \A j \in (i + 1) .. Len(matches) :
              \A t \in matches[j].tiles : tiles[t] # g

\* destroy_matches taking the gem above every matched tile as well.
destroy_matches_AndAbove ==
    delayed' =
        IF matchesUnread
        THEN LET gs == {tiles[t] : t \in MatchedTiles}
                 up == {tiles[<<t[1], t[2] + 1>>] :
                          t \in {u \in MatchedTiles : u[2] + 1 \in Rows}} \ gs
             IN [g \in DOMAIN delayed \cup gs \cup up |->
                   IF g \in gs THEN DestroyOrder(g)
                   ELSE IF g \in up THEN 1 ELSE delayed[g]]
        ELSE delayed
destroy_matches ==
    delayed' =
        IF matchesUnread
        THEN LET gs == {tiles[t] : t \in MatchedTiles} IN
             [g \in DOMAIN delayed \cup gs |->
                 IF g \in gs THEN DestroyOrder(g) ELSE delayed[g]]
        ELSE delayed

\* stop_matching leaving Matching although gems are still to be despawned.
stop_matching_NoWait ==
    LET any == any_matches \/ (matchesUnread /\ Len(matches) > 0) IN
    /\ matching_waiting_for' = 0
    /\ despawnEvents' = 0
    /\ panicked' = panicked
    /\ Replace(IF any THEN Falling ELSE Waiting)
    /\ any_matches' = FALSE

\* stop_matching going back to Waiting although the pass found matches.
stop_matching_SkipFall ==
    LET added == IF matchesUnread THEN SumOfSizes(matches, 1) ELSE 0
        waiting_for == matching_waiting_for + added - despawnEvents
    IN /\ matching_waiting_for' = waiting_for
       /\ despawnEvents' = 0
       /\ panicked' = panicked
       /\ any_matches' = FALSE
       /\ IF waiting_for = 0
          THEN Replace(Waiting)
          ELSE /\ ticked' = TRUE
               /\ UNCHANGED <<boardState, entering>>

\* stop_matching waiting for one more frame when nothing is outstanding.
stop_matching_Lazy ==
    LET any == any_matches \/ (matchesUnread /\ Len(matches) > 0)
        added == IF matchesUnread THEN SumOfSizes(matches, 1) ELSE 0
        waiting_for == matching_waiting_for + added - despawnEvents
    IN /\ matching_waiting_for' = waiting_for
       /\ despawnEvents' = 0
       /\ panicked' = panicked
       /\ IF waiting_for = 0 /\ ticked
          THEN /\ Replace(IF any THEN Falling ELSE Waiting)
               /\ any_matches' = FALSE
          ELSE /\ any_matches' = any
               /\ ticked' = TRUE
               /\ UNCHANGED <<boardState, entering>>

\* The DespawnEvents stop_matching reads in a tick: those of the gems, and
\* `other` events with another reason or none (the particles of
\* battle.rs animate_matches carry a DelayedDespawn without reason).
DespawnEventsRead(other) == [DestroyGem |-> despawnEvents, Other |-> other]

\* The count without the filter.
DestroyGemCount_All(events) == events.DestroyGem + events.Other

\* .filter(|e| e.reason == Some(DespawnReason::DestroyGem)).count()
DestroyGemCount(events) == events.DestroyGem

\* stop_matching adding one per Match event instead of one per tile.
stop_matching_CountGroups ==
    LET any == any_matches \/ (matchesUnread /\ Len(matches) > 0)
        added == IF matchesUnread THEN Len(matches) ELSE 0
        waiting_for == matching_waiting_for + added - despawnEvents
    IN IF waiting_for < 0
       THEN /\ panicked' = TRUE
            /\ UNCHANGED <<boardState, entering, ticked, any_matches,
                           matching_waiting_for, despawnEvents>>
       ELSE /\ panicked' = panicked
            /\ matching_waiting_for' = waiting_for
            /\ despawnEvents' = 0
            /\ IF waiting_for = 0
               THEN /\ Replace(IF any THEN Falling ELSE Waiting)
                    /\ any_matches' = FALSE
               ELSE /\ any_matches' = any
                    /\ ticked' = TRUE
                    /\ UNCHANGED <<boardState, entering>>

\* usize arithmetic: a subtraction below zero panics (debug build).
stop_matching ==
    \E other \in 0 .. MaxOtherEvents :
    LET any == any_matches \/ (matchesUnread /\ Len(matches) > 0)
        added == IF matchesUnread THEN SumOfSizes(matches, 1) ELSE 0
        waiting_for == matching_waiting_for + added
                          - DestroyGemCount(DespawnEventsRead(other))
    IN IF waiting_for < 0
       THEN /\ panicked' = TRUE
            /\ UNCHANGED <<boardState, entering, ticked, any_matches,
                           matching_waiting_for, despawnEvents>>
       ELSE /\ panicked' = panicked
            /\ matching_waiting_for' = waiting_for
            /\ despawnEvents' = 0
            /\ IF waiting_for = 0
               THEN /\ Replace(IF any THEN Falling ELSE Waiting)
                    /\ any_matches' = FALSE
               ELSE /\ any_matches' = any
                    /\ ticked' = TRUE
                    /\ UNCHANGED <<boardState, entering>>

\* battle.rs, the PlayerTurn set: the Match events not yet read are added to
\* the Matches resource (as long as it holds no more than MaxTracked).
track_matches ==
    tracked' = IF /\ matchesUnread
                  /\ battleState = "PlayerTurn"
                  /\ Len(tracked) + Len(matches) <= MaxTracked
               THEN tracked \o matches ELSE tracked

\* One tick of on_update(Matching): destroy_matches and stop_matching, and
\* track_matches of the PlayerTurn set.
UpdateMatching ==
    /\ ~panicked
    /\ boardState = Matching
    /\ ~entering
    /\ destroy_matches
    /\ stop_matching
    /\ matchesUnread' = FALSE
    /\ despawnsRead' = despawnsRead + despawnEvents
    /\ track_matches
    /\ UNCHANGED <<tiles, gems, swapping, matches, pickups, released, tilesAtPickup>>
    /\ UNCHANGED <<active_spell, enemy_health, player_health>> /\ unchangedEnemy
    /\ unchangedFalling /\ unchangedBattle

\* The "delayed_despawn" stage: every timer of order <= upTo has run out.
delayed_despawn(upTo) ==
    /\ ~panicked
    /\ \E g \in DOMAIN delayed : delayed[g] = upTo
    /\ LET gone == {g \in DOMAIN delayed : delayed[g] <= upTo} IN
       /\ gems' = Restrict(gems, DOMAIN gems \ gone)
       /\ delayed' = Restrict(delayed, DOMAIN delayed \ gone)
       /\ tweens' = Restrict(tweens, DOMAIN tweens \ gone)
       /\ despawnEvents' = despawnEvents + Cardinality(gone)
    /\ UNCHANGED <<boardState, entering, ticked, tiles, swapping, matches,
                   matchesUnread, any_matches, matching_waiting_for,
                   fallEvents, fallUnread, falling_waiting_for, tweenEvents,
                   panicked, pickups, released, tilesAtPickup, despawnsRead, tweensRead>>
    /\ unchangedBattle /\ unchangedFight

\* -------------------------------------------------------------- falling
\* on_enter(Falling).
begin_fall ==
    /\ ~panicked
    /\ boardState = Falling
    /\ entering
    /\ fallEvents' = BeginFall
    /\ fallUnread' = TRUE
    /\ entering' = FALSE
    /\ tweensRead' = 0
    /\ UNCHANGED <<boardState, ticked, tiles, gems, swapping,
                   falling_waiting_for, tweens, tweenEvents, panicked, pickups, released, tilesAtPickup>>
    /\ unchangedMatching /\ unchangedBattle /\ unchangedFight

\* The positions in fallEvents of the FallingGem::New events, in order.
NewFalls == {i \in 1 .. Len(fallEvents) : ~fallEvents[i].existing}
NewRank(i) == Cardinality({j \in NewFalls : j <= i})

\* The row a gem's transform is at: that of the tile it rests on.
GemRow(g) == (CHOOSE t \in Tile : tiles[t] = g)[2]

\* start.y - end.y of the i-th Fall event, in rows.  A new gem starts at
\* BOARD_MIDDLE.y - 0.5 + height, that is `height` rows above the top row.
FallDistance(i) ==
    LET e == fallEvents[i] IN
    IF e.existing THEN GemRow(e.gem) - e.tile[2]
    ELSE (BoardHeight - 1) + e.height - e.tile[2]

\* The event of tile t or of gem g that is applied last.
LastFallOfTile(t) ==
    CHOOSE i \in 1 .. Len(fallEvents) :
        /\ fallEvents[i].tile = t
        /\ \A j \in (i + 1) .. Len(fallEvents) : fallEvents[j].tile # t

\* elements[k] is what Element::random() returns for the k-th new gem.
move_falling_gems(elements) ==
    IF fallUnread
    THEN \E used \in {UsedGems} :
         \E fresh \in {FreshGems(Cardinality(NewFalls), used)} :
         \E gemOf \in {[i \in 1 .. Len(fallEvents) |->
                          IF fallEvents[i].existing THEN fallEvents[i].gem
                          ELSE fresh[NewRank(i)]]} :
         \E distance \in {[i \in 1 .. Len(fallEvents) |-> FallDistance(i)]} :
            LET spawned == {fresh[k] : k \in 1 .. Len(fresh)}
                falling == {gemOf[i] : i \in 1 .. Len(fallEvents)}
                LastFallOfGem(g) ==
                    CHOOSE i \in 1 .. Len(fallEvents) :
                        /\ gemOf[i] = g
                        /\ \A j \in (i + 1) .. Len(fallEvents) : gemOf[j] # g
            IN /\ tiles' = [t \in Tile |->
                             IF \E i \in 1 .. Len(fallEvents) : fallEvents[i].tile = t
                             THEN gemOf[LastFallOfTile(t)] ELSE tiles[t]]
               /\ gems' = [g \in DOMAIN gems \cup spawned |->
                             IF g \in DOMAIN gems THEN gems[g]
                             ELSE elements[CHOOSE k \in 1 .. Len(fresh) : fresh[k] = g]]
               /\ tweens' = [g \in DOMAIN tweens \cup falling |->
                               IF g \in falling THEN distance[LastFallOfGem(g)]
                               ELSE tweens[g]]
    ELSE UNCHANGED <<tiles, gems, tweens>>

\* The TweenCompleted events stop_falling reads in a tick: those tagged
\* TweenType::Fall, and `other` events with another user_data.
TweenEventsRead(other) == [Fall |-> tweenEvents, Other |-> other]

\* .filter(|e| TweenType::try_from(e.user_data) == Ok(TweenType::Fall)).count()
FallCount(events) == events.Fall

\* stop_falling going back to Matching without waiting for the tweens.
stop_falling_NoWait ==
    /\ falling_waiting_for' = 0
    /\ tweenEvents' = 0
    /\ panicked' = panicked
    /\ Replace(Matching)

stop_falling ==
    \E other \in 0 .. MaxOtherEvents :
    LET added == IF fallUnread THEN Len(fallEvents) ELSE 0
        waiting_for == falling_waiting_for + added
                          - FallCount(TweenEventsRead(other))
    IN IF waiting_for < 0
       THEN /\ panicked' = TRUE
            /\ UNCHANGED <<boardState, entering, ticked, falling_waiting_for,
                           tweenEvents>>
       ELSE /\ panicked' = panicked
            /\ falling_waiting_for' = waiting_for
            /\ tweenEvents' = 0
            /\ IF waiting_for = 0
               THEN Replace(Matching)
               ELSE /\ ticked' = TRUE
                    /\ UNCHANGED <<boardState, entering>>

\* One tick of on_update(Falling): move_falling_gems and stop_falling.
UpdateFalling(elements) ==
    /\ ~panicked
    /\ boardState = Falling
    /\ ~entering
    /\ move_falling_gems(elements)
    /\ stop_falling
    /\ fallUnread' = FALSE
    /\ tweensRead' = tweensRead + tweenEvents
    /\ UNCHANGED <<swapping, fallEvents, pickups, released, tilesAtPickup>>
    /\ unchangedMatching /\ unchangedBattle /\ unchangedFight

\* bevy_tweening's animator system: every Fall tween whose distance is at
\* most upTo has run out (the duration sqrt(2 g h) / g grows with h) and has
\* sent its TweenCompleted.
tween_completed(upTo) ==
    /\ ~panicked
    /\ \E g \in DOMAIN tweens : tweens[g] = upTo
    /\ LET done == {g \in DOMAIN tweens : tweens[g] <= upTo} IN
       /\ tweens' = Restrict(tweens, DOMAIN tweens \ done)
       /\ tweenEvents' = tweenEvents + Cardinality(done)
    /\ UNCHANGED <<boardState, entering, ticked, tiles, gems, swapping,
                   fallEvents, fallUnread, falling_waiting_for, panicked, pickups, released, tilesAtPickup,
                   tweensRead>>
    /\ unchangedMatching /\ unchangedBattle /\ unchangedFight

\* --------------------------------------------------------------- battle
unchangedBoard ==
    UNCHANGED <<tiles, gems, swapping, panicked, pickups, released, tilesAtPickup>>

\* stop_board run in EnemyTurn only.
StopBoardDue_EnemyTurn == battleState = "EnemyTurn" /\ boardState # None

\* battle.rs: stop_board.run_not_in_state(BattleState::PlayerTurn).
StopBoardDue == battleState # "PlayerTurn" /\ boardState # None

stop_board ==
    /\ ~panicked
    /\ StopBoardDue
    /\ Replace(None)
    /\ unchangedBoard /\ unchangedMatching /\ unchangedFalling /\ unchangedBattle /\ unchangedFight

\* main_state.rs: the assets are loaded.  stop_board runs from the first
\* frame on, so its transition lands no later than this one.
loaded ==
    /\ ~panicked
    /\ mainState = "Load"
    /\ ~StopBoardDue
    /\ mainState' = "Map"
    /\ UNCHANGED <<boardState, entering, ticked, battleState, cardsState>>
    /\ unchangedBoard /\ unchangedMatching /\ unchangedFalling /\ unchangedFight

\* player.rs: the spells.  Spell::empty() has no element and attack 0.
SpellElement == {"Heal", "Dark", "Water", "Fire", "Grass", "Light"}
FIRE == [elements |-> <<"Fire">>, attack |-> 2]
WAVE == [elements |-> <<"Water">>, attack |-> 2]
THORNS == [elements |-> <<"Grass">>, attack |-> 2]
RAY == [elements |-> <<"Light">>, attack |-> 3]
CURSE == [elements |-> <<"Dark">>, attack |-> 3]
PlayerSpells == <<FIRE, FIRE, WAVE, WAVE, THORNS, THORNS, RAY, CURSE>>
PlayerMaxHealth == 100
EnemyHealth == 40
EnemyAttack == 10

\* Option<Spell>.
NoSpell == [some |-> FALSE, elements |-> <<>>, attack |-> 0]
Some(spell) == [some |-> TRUE, elements |-> spell.elements, attack |-> spell.attack]

\* cards.rs merge: the elements of the selected cards one after the other,
\* their attacks added up.
RECURSIVE Merge(_)
Merge(cards) ==
    IF cards = <<>> THEN [elements |-> <<>>, attack |-> 0]
    ELSE LET new_spell == Merge(SubSeq(cards, 1, Len(cards) - 1))
             spell == cards[Len(cards)]
         IN [elements |-> new_spell.elements \o spell.elements,
             attack |-> new_spell.attack + spell.attack]

\* The two cards of the hand the player selects, as positions in
\* Player.spells; the board never reads the spell.
SelectedCards == {<<1, 3>>}

\* BoardPrefab::random_gems(): any grid; the model starts from these.
BaseElement(t) == ElementSeq[3 + ((t[1] + 2 * t[2]) % 3)]
FigureElement == ElementSeq[6]
Run(from, to, dx, dy) ==
    {<<from[1] + k * dx, from[2] + k * dy>> : k \in 0 .. to}
Figure(i) ==
    CASE i = 2 -> Run(<<2, 0>>, 2, 0, 1)
      [] i = 3 -> Run(<<0, 0>>, 2, 1, 0) \cup Run(<<0, 0>>, 2, 0, 1)
      [] i = 4 -> Run(<<0, 0>>, 2, 1, 0) \cup Run(<<0, 2>>, 2, 1, 0)
                    \cup Run(<<0, 0>>, 2, 0, 1)
      [] i = 5 -> Run(<<0, 0>>, 2, 1, 0) \cup Run(<<3, 4>>, 2, 1, 0)
      [] i = 6 -> {<<0, 0>>, <<1, 1>>, <<2, 1>>}
      [] i = 7 -> Run(<<0, 1>>, 3, 0, 1)
      [] OTHER -> {}
GridOf(figure) ==
    [t \in Tile |-> IF t \in figure THEN FigureElement ELSE BaseElement(t)]
InitGrid(i) == GridOf(Figure(i))

\* BoardPrefab::construct: one gem per tile, column by column.
InitialGem(t) == t[1] * BoardHeight + t[2]
SpawnBoard(grid) ==
    /\ tiles' = [t \in Tile |-> InitialGem(t)]
    /\ gems' = [g \in {InitialGem(t) : t \in Tile} |->
                  grid[CHOOSE t \in Tile : InitialGem(t) = g]]

\* main_state.rs: start_battle spawns the BattlePrefab, the board and the
\* enemy of the first round with it.
start_battle ==
    /\ ~panicked
    /\ mainState = "Map"
    /\ mainState' = "Battle"
    /\ battleState' = "Intro"
    /\ \E i \in 1 .. NumInitGrids : SpawnBoard(InitGrid(i))
    /\ UNCHANGED <<boardState, entering, ticked, cardsState, swapping,
                   panicked, pickups, released, tilesAtPickup>>
    /\ unchangedMatching /\ unchangedFalling
    /\ enemy_health' = EnemyHealth
    /\ enemy_alive' = TRUE
    /\ enemy_animation' = "idle"
    /\ UNCHANGED <<tracked, active_spell, player_health, enemyResolved>>

\* battle.rs: the fade-in has ended; entering PlayerTurn goes to
\* CardsState::Draw and start_player_turn inserts an empty Matches.
intro ==
    /\ ~panicked
    /\ battleState = "Intro"
    /\ battleState' = "PlayerTurn"
    /\ cardsState' = "Draw"
    /\ UNCHANGED <<boardState, entering, ticked, mainState>>
    /\ unchangedBoard /\ unchangedMatching /\ unchangedFalling
    /\ tracked' = <<>>
    /\ UNCHANGED <<active_spell, enemy_health, player_health>> /\ unchangedEnemy

\* go_to(BoardState::Ready) run on entry to Select instead of End.
go_to_Select_Arm ==
    /\ ~panicked
    /\ cardsState = "Draw"
    /\ cardsState' = "Select"
    /\ IF battleState = "PlayerTurn" THEN Replace(Ready)
       ELSE UNCHANGED <<boardState, entering, ticked>>
    /\ UNCHANGED <<mainState, battleState>>
    /\ unchangedBoard /\ unchangedMatching /\ unchangedFalling /\ unchangedFight

\* cards.rs: go_to(CardsState::Select) in Draw.
go_to_Select ==
    /\ ~panicked
    /\ cardsState = "Draw"
    /\ cardsState' = "Select"
    /\ UNCHANGED <<boardState, entering, ticked, mainState, battleState>>
    /\ unchangedBoard /\ unchangedMatching /\ unchangedFalling /\ unchangedFight

\* merge leaving Player.active_spell as it was.
start_merge_NoSpell ==
    /\ ~panicked
    /\ cardsState = "Select"
    /\ cardsState' = "Merge"
    /\ UNCHANGED <<boardState, entering, ticked, mainState, battleState>>
    /\ unchangedBoard /\ unchangedMatching /\ unchangedFalling /\ unchangedFight

\* cards.rs: two cards are selected; entering Merge runs merge.
start_merge ==
    /\ ~panicked
    /\ cardsState = "Select"
    /\ cardsState' = "Merge"
    /\ UNCHANGED <<boardState, entering, ticked, mainState, battleState>>
    /\ unchangedBoard /\ unchangedMatching /\ unchangedFalling
    /\ \E pair \in SelectedCards :
          active_spell' = Some(Merge(<<PlayerSpells[pair[1]], PlayerSpells[pair[2]]>>))
    /\ UNCHANGED <<tracked, enemy_health, player_health>> /\ unchangedEnemy

\* cards.rs: go_to(CardsState::Discard) in Merge.
go_to_Discard ==
    /\ ~panicked
    /\ cardsState = "Merge"
    /\ cardsState' = "Discard"
    /\ UNCHANGED <<boardState, entering, ticked, mainState, battleState>>
    /\ unchangedBoard /\ unchangedMatching /\ unchangedFalling /\ unchangedFight

\* cards.rs: go_to(CardsState::End) in Discard; battle.rs: entering
\* CardsState::End in PlayerTurn goes to BoardState::Ready.
go_to_End ==
    /\ ~panicked
    /\ cardsState = "Discard"
    /\ cardsState' = "End"
    /\ IF battleState = "PlayerTurn" THEN Replace(Ready)
       ELSE UNCHANGED <<boardState, entering, ticked>>
    /\ UNCHANGED <<mainState, battleState>>
    /\ unchangedBoard /\ unchangedMatching /\ unchangedFalling /\ unchangedFight

\* ------------------------------------------------------- specifications
NoSwapping ==
    [swaps |-> 0, gem |-> NoGem, current_tile |-> <<0, 0>>, timer_finished |-> FALSE]

\* The app after App::build: no battle, no board entity yet.
Init ==
    /\ boardState = Waiting
    /\ entering = FALSE
    /\ ticked = FALSE
    /\ tiles = <<>>
    /\ gems = <<>>
    /\ swapping = NoSwapping
    /\ matches = <<>>
    /\ matchesUnread = FALSE
    /\ any_matches = FALSE
    /\ matching_waiting_for = 0
    /\ delayed = <<>>
    /\ despawnEvents = 0
    /\ fallEvents = <<>>
    /\ fallUnread = FALSE
    /\ falling_waiting_for = 0
    /\ tweens = <<>>
    /\ tweenEvents = 0
    /\ panicked = FALSE
    /\ pickups = 0
    /\ released = FALSE
    /\ tilesAtPickup = <<>>
    /\ despawnsRead = 0
    /\ tweensRead = 0
    /\ mainState = "Load"
    /\ battleState = "None"
    /\ cardsState = "None"
    /\ tracked = <<>>
    /\ active_spell = NoSpell
    /\ enemy_health = 0
    /\ player_health = PlayerMaxHealth
    /\ enemy_alive = FALSE
    /\ enemy_animation = "idle"
    /\ enemyResolved = TRUE

\* What Element::random() returns for the new gems of this tick, in event
\* order: pattern 1 alternates two elements over the tiles, pattern p > 1
\* repeats one element.
RandomElements(p) ==
    LET new == IF fallUnread THEN NewFalls ELSE {}
        At(k) == fallEvents[CHOOSE i \in new : NewRank(i) = k].tile
    IN [k \in 1 .. Cardinality(new) |->
          IF p = 1 THEN ElementSeq[1 + ((At(k)[1] + At(k)[2]) % 2)]
          ELSE ElementSeq[1 + (p % 2)]]

Next ==
    \/ stop_board
    \/ loaded
    \/ start_battle
    \/ intro
    \/ go_to_Select
    \/ start_merge
    \/ go_to_Discard
    \/ go_to_End
    \/ \E t \in CursorTiles : pickup_gem(t)
    \/ \E closet \in CursorTiles : swap_gems(closet)
    \/ update_timer
    \/ \E drop \in BOOLEAN : drop_gem(drop)
    \/ match_gems
    \/ UpdateMatching
    \/ \E upTo \in 1 .. (BoardWidth * BoardHeight) : delayed_despawn(upTo)
    \/ begin_fall
    \/ \E p \in 1 .. NumFillPatterns : UpdateFalling(RandomElements(p))
    \/ \E upTo \in 1 .. (2 * BoardHeight) : tween_completed(upTo)

Spec == Init /\ [][Next]_vars

\* One step of the board's resolution: a system of the Matching or Falling
\* set, or an animation system delivering completions.
BoardStep ==
    \/ match_gems
    \/ UpdateMatching
    \/ \E upTo \in 1 .. (BoardWidth * BoardHeight) : delayed_despawn(upTo)
    \/ begin_fall
    \/ \E p \in 1 .. NumFillPatterns : UpdateFalling(RandomElements(p))
    \/ \E upTo \in 1 .. (2 * BoardHeight) : tween_completed(upTo)

\* Every frame runs the systems of the current state and the animation
\* systems: the resolution does not stop while one of them can act.
SpecLive == Spec /\ WF_vars(BoardStep)

\* A board about to run a detection pass: the player picked up the gem of
\* tile (0, 0), swapped it away and back, and dropped it.  Rows `stripes`
\* carry a run of three in columns 0 to 2, so that every pattern of vacated
\* tiles occurs in a column.

\* The Swapping system set runs every frame: the timer is ticked and the
\* timed-out drop is taken whenever they can be.  The pointer (pickup, swaps
\* and release) is the player's and is promised nothing.
SpecTimeout == Spec /\ WF_vars(update_timer) /\ WF_vars(drop_gem(FALSE))

StripeGrid(stripes) ==
    [t \in Tile |-> IF t[2] \in stripes /\ t[1] < MinMatch
                    THEN ElementSeq[1 + (t[2] % 2)] ELSE BaseElement(t)]

InitFall ==
    /\ boardState = Matching
    /\ entering = TRUE
    /\ ticked = FALSE
    /\ tiles = [t \in Tile |-> InitialGem(t)]
    /\ \E stripes \in SUBSET Rows :
          gems = [g \in {InitialGem(t) : t \in Tile} |->
                    StripeGrid(stripes)[CHOOSE t \in Tile : InitialGem(t) = g]]
    /\ swapping = [swaps |-> 2, gem |-> InitialGem(<<0, 0>>),
                   current_tile |-> <<0, 0>>, timer_finished |-> FALSE]
    /\ matches = <<>>
    /\ matchesUnread = FALSE
    /\ any_matches = FALSE
    /\ matching_waiting_for = 0
    /\ delayed = <<>>
    /\ despawnEvents = 0
    /\ fallEvents = <<>>
    /\ fallUnread = FALSE
    /\ falling_waiting_for = 0
    /\ tweens = <<>>
    /\ tweenEvents = 0
    /\ panicked = FALSE
    /\ pickups = 1
    /\ released = FALSE
    /\ tilesAtPickup = <<>>
    /\ despawnsRead = 0
    /\ tweensRead = 0
    /\ mainState = "Battle"
    /\ battleState = "PlayerTurn"
    /\ cardsState = "End"
    /\ tracked = <<>>
    /\ active_spell = Some(Merge(<<PlayerSpells[1], PlayerSpells[3]>>))
    /\ enemy_health = EnemyHealth
    /\ player_health = PlayerMaxHealth
    /\ enemy_alive = TRUE
    /\ enemy_animation = "idle"
    /\ enemyResolved = TRUE

\* The pass, the destruction and the entry to Falling.
NextFall ==
    \/ match_gems
    \/ UpdateMatching
    \/ \E upTo \in 1 .. (BoardWidth * BoardHeight) : delayed_despawn(upTo)
    \/ begin_fall

SpecFall == InitFall /\ [][NextFall]_vars

\* The figures drawn in the corner of MinMatch by MinMatch tiles.
Region == (0 .. (MinMatch - 1)) \X (0 .. (MinMatch - 1))

\* The board entering Matching on any grid whose FigureElement tiles are a
\* subset of the corner region.
InitDetect ==
    /\ boardState = Matching
    /\ entering = TRUE
    /\ ticked = FALSE
    /\ tiles = [t \in Tile |-> InitialGem(t)]
    /\ \E figure \in SUBSET Region :
          gems = [g \in {InitialGem(t) : t \in Tile} |->
                    GridOf(figure)[CHOOSE t \in Tile : InitialGem(t) = g]]
    /\ swapping = [swaps |-> 2, gem |-> InitialGem(<<0, 0>>),
                   current_tile |-> <<0, 0>>, timer_finished |-> FALSE]
    /\ matches = <<>>
    /\ matchesUnread = FALSE
    /\ any_matches = FALSE
    /\ matching_waiting_for = 0
    /\ delayed = <<>>
    /\ despawnEvents = 0
    /\ fallEvents = <<>>
    /\ fallUnread = FALSE
    /\ falling_waiting_for = 0
    /\ tweens = <<>>
    /\ tweenEvents = 0
    /\ panicked = FALSE
    /\ pickups = 1
    /\ released = FALSE
    /\ tilesAtPickup = <<>>
    /\ despawnsRead = 0
    /\ tweensRead = 0
    /\ mainState = "Battle"
    /\ battleState = "PlayerTurn"
    /\ cardsState = "End"
    /\ tracked = <<>>
    /\ active_spell = Some(Merge(<<PlayerSpells[1], PlayerSpells[3]>>))
    /\ enemy_health = EnemyHealth
    /\ player_health = PlayerMaxHealth
    /\ enemy_alive = TRUE
    /\ enemy_animation = "idle"
    /\ enemyResolved = TRUE

SpecDetect == InitDetect /\ [][NextFall]_vars

\* The board resolving the vacancies of InitFall to the end: the falls are
\* applied, the refilled grid is matched again.
SpecRefill == InitFall /\ [][BoardStep]_vars

\* The board resolving a drop while left releases arrive.
NextRelease ==
    \/ NextFall
    \/ \E events \in ReleaseFrames, t \in CursorTiles : left_released(events, t)

SpecRelease == InitDetect /\ [][NextRelease]_vars

\* ------------------------------------------------------- the player's attack
Contains(elements, e) == \E i \in 1 .. Len(elements) : elements[i] = e

\* The subtraction that does not stop at 0.
PlainSub(a, b) == a - b
SaturatingSub(a, b) == IF a > b THEN a - b ELSE 0

\* The damage counting a group once for every listing of its element.
Damage_PerListing(spell, ms) ==
    LET Listed(i) == LET hit(x) == x.element = spell.elements[i]
                     IN SumOfSizes(SelectSeq(ms, hit), 1)
        sum[i \in 0 .. Len(spell.elements)] ==
            IF i = 0 THEN 0 ELSE sum[i - 1] + Listed(i)
    IN sum[Len(spell.elements)] * spell.attack

\* player_attack: the sizes of the groups whose element the spell
\* contains, added up, times the attack of the spell.
Damage(spell, ms) ==
    LET hit(x) == Contains(spell.elements, x.element)
    IN SumOfSizes(SelectSeq(ms, hit), 1) * spell.attack

\* player_attack: three health points for every tile of a Heal group.
Heal(ms) ==
    LET heals(x) == x.element = "Heal"
    IN SumOfSizes(SelectSeq(ms, heals), 1) * 3

\* battle.rs: the enter system of BoardState::End, run in PlayerTurn.
player_attack ==
    /\ ~panicked
    /\ boardState = End
    /\ entering
    /\ battleState = "PlayerTurn"
    /\ IF ~active_spell.some
       THEN /\ panicked' = TRUE
            /\ UNCHANGED <<entering, enemy_health, player_health, enemy_animation>>
       ELSE LET damage == Damage(active_spell, tracked) IN
            /\ panicked' = FALSE
            /\ entering' = FALSE
            /\ enemy_health' = IF damage # 0 /\ enemy_alive
                               THEN SaturatingSub(enemy_health, damage)
                               ELSE enemy_health
            /\ enemy_animation' = IF damage # 0 /\ enemy_alive
                                  THEN "hurt" ELSE enemy_animation
            /\ player_health' =
                  IF player_health + Heal(tracked) < PlayerMaxHealth
                  THEN player_health + Heal(tracked) ELSE PlayerMaxHealth
    /\ UNCHANGED <<boardState, ticked, tiles, gems, swapping, pickups, released,
                   tilesAtPickup, tracked, active_spell, enemy_alive, enemyResolved>>
    /\ unchangedMatching /\ unchangedFalling /\ unchangedBattle

\* kill_enemies and die run in the frame in which the health they test has
\* become 0, before the animation of that attack can have ended.
TurnLoop == {"PlayerTurn", "EnemyTurn"}
KillDue == battleState \in TurnLoop /\ enemy_alive /\ enemy_health = 0
DieDue == mainState = "Battle" /\ player_health = 0

\* EnemyAnimator.current_animation of every enemy is the idle animation.
enemy_animations_finished == enemy_alive => enemy_animation = "idle"

\* battle.rs: play_idle_animation, the hurt or attack animation has ended.
play_idle_animation ==
    /\ ~panicked
    /\ enemy_alive
    /\ enemy_animation # "idle"
    /\ enemy_animation' = "idle"
    /\ UNCHANGED <<boardState, entering, ticked, tracked, active_spell,
                   enemy_health, player_health, enemy_alive, enemyResolved>>
    /\ unchangedBoard /\ unchangedMatching /\ unchangedFalling /\ unchangedBattle

\* battle.rs: kill_enemies, in PlayerTurn and in EnemyTurn, takes Enemy and
\* EnemyAnimator off an enemy without health.
kill_enemies ==
    /\ ~panicked
    /\ KillDue
    /\ enemy_alive' = FALSE
    /\ UNCHANGED <<boardState, entering, ticked, tracked, active_spell,
                   enemy_health, player_health, enemy_animation, enemyResolved>>
    /\ unchangedBoard /\ unchangedMatching /\ unchangedFalling /\ unchangedBattle

\* battle.rs: start_outtro, in PlayerTurn and in EnemyTurn.
start_outtro ==
    /\ ~panicked
    /\ battleState \in TurnLoop
    /\ ~enemy_alive
    /\ battleState' = "Outtro"
    /\ UNCHANGED <<boardState, entering, ticked, mainState, cardsState>>
    /\ unchangedBoard /\ unchangedMatching /\ unchangedFalling /\ unchangedFight

\* enemies_attack run for the enemy whether or not it still has its Enemy
\* component.
enemies_attack_Dead ==
    /\ player_health' = SaturatingSub(player_health, EnemyAttack)
    /\ enemy_animation' = "attack"

\* battle.rs enemies_attack, the enter system of EnemyTurn.
enemies_attack ==
    IF enemy_alive
    THEN /\ player_health' = SaturatingSub(player_health, EnemyAttack)
         /\ enemy_animation' = "attack"
    ELSE UNCHANGED <<player_health, enemy_animation>>

\* end_player_turn starting the next player turn at once.
end_player_turn_Skip ==
    /\ ~panicked
    /\ battleState = "PlayerTurn"
    /\ boardState = End
    /\ ~entering
    /\ ~KillDue
    /\ enemy_animations_finished
    /\ cardsState' = "Draw"
    /\ tracked' = <<>>
    /\ UNCHANGED <<boardState, entering, ticked, mainState, battleState,
                   active_spell, enemy_health, player_health>>
    /\ unchangedBoard /\ unchangedMatching /\ unchangedFalling /\ unchangedEnemy

\* battle.rs: end_player_turn, run in PlayerTurn and BoardState::End once the
\* enemy is back to its idle animation; entering EnemyTurn runs
\* enemies_attack.
end_player_turn ==
    /\ ~panicked
    /\ battleState = "PlayerTurn"
    /\ boardState = End
    /\ ~entering
    /\ ~KillDue
    /\ enemy_animations_finished
    /\ battleState' = "EnemyTurn"
    /\ enemies_attack
    /\ enemyResolved' = TRUE
    /\ UNCHANGED <<boardState, entering, ticked, mainState, cardsState,
                   tracked, active_spell, enemy_health, enemy_alive>>
    /\ unchangedBoard /\ unchangedMatching /\ unchangedFalling

\* end_enemy_turn starting the player turn with the Matches of the last one.
end_enemy_turn_KeepList ==
    /\ ~panicked
    /\ battleState = "EnemyTurn"
    /\ ~DieDue
    /\ ~KillDue
    /\ ~StopBoardDue
    /\ enemy_animations_finished
    /\ IF ~enemy_alive
       THEN /\ battleState' = "Outtro"
            /\ UNCHANGED <<cardsState, tracked>>
       ELSE /\ battleState' = "PlayerTurn"
            /\ cardsState' = "Draw"
            /\ tracked' = tracked
    /\ UNCHANGED <<boardState, entering, ticked, mainState, active_spell,
                   enemy_health, player_health>>
    /\ unchangedBoard /\ unchangedMatching /\ unchangedFalling /\ unchangedEnemy

\* end_enemy_turn going back to PlayerTurn whether or not an enemy is left.
end_enemy_turn_Loop ==
    /\ ~panicked
    /\ battleState = "EnemyTurn"
    /\ ~DieDue
    /\ ~KillDue
    /\ ~StopBoardDue
    /\ enemy_animations_finished
    /\ battleState' = "PlayerTurn"
    /\ cardsState' = "Draw"
    /\ tracked' = <<>>
    /\ UNCHANGED <<boardState, entering, ticked, mainState, active_spell,
                   enemy_health, player_health>>
    /\ unchangedBoard /\ unchangedMatching /\ unchangedFalling /\ unchangedEnemy

\* battle.rs: end_enemy_turn; entering PlayerTurn runs start_player_turn and
\* go_to(CardsState::Draw).  stop_board runs from the first frame of
\* EnemyTurn on, so its transition lands no later than this one.
end_enemy_turn ==
    /\ ~panicked
    /\ battleState = "EnemyTurn"
    /\ ~DieDue
    /\ ~KillDue
    /\ ~StopBoardDue
    /\ enemy_animations_finished
    /\ IF ~enemy_alive
       THEN /\ battleState' = "Outtro"
            /\ UNCHANGED <<cardsState, tracked>>
       ELSE /\ battleState' = "PlayerTurn"
            /\ cardsState' = "Draw"
            /\ tracked' = <<>>
    /\ UNCHANGED <<boardState, entering, ticked, mainState, active_spell,
                   enemy_health, player_health>>
    /\ unchangedBoard /\ unchangedMatching /\ unchangedFalling /\ unchangedEnemy

\* main_state.rs: die, in MainState::Battle.
die ==
    /\ ~panicked
    /\ DieDue
    /\ mainState' = "Death"
    /\ battleState' = "None"
    /\ cardsState' = "None"
    /\ UNCHANGED <<boardState, entering, ticked>>
    /\ unchangedBoard /\ unchangedMatching /\ unchangedFalling /\ unchangedFight

\* The groups a player turn can have tracked, and the lists of them.
TrackedGroups ==
    {[tiles |-> Run(<<0, 0>>, n - 1, 1, 0), element |-> e] :
        n \in MinMatch .. (MinMatch + 1), e \in {"Fire", "Water", "Heal"}}
TrackedLists == UNION {[1 .. n -> TrackedGroups] : n \in 0 .. MaxTracked}

\* The board has just been replaced by End in the player turn: any tracked
\* groups, any spell merged from two cards, the enemy fresh or weakened.
InitAttack ==
    /\ boardState = End
    /\ entering = TRUE
    /\ ticked = FALSE
    /\ tiles = [t \in Tile |-> InitialGem(t)]
    /\ gems = [g \in {InitialGem(t) : t \in Tile} |->
                 GridOf({})[CHOOSE t \in Tile : InitialGem(t) = g]]
    /\ swapping = [swaps |-> 2, gem |-> InitialGem(<<0, 0>>),
                   current_tile |-> <<0, 0>>, timer_finished |-> FALSE]
    /\ matches = <<>>
    /\ matchesUnread = FALSE
    /\ any_matches = FALSE
    /\ matching_waiting_for = 0
    /\ delayed = <<>>
    /\ despawnEvents = 0
    /\ fallEvents = <<>>
    /\ fallUnread = FALSE
    /\ falling_waiting_for = 0
    /\ tweens = <<>>
    /\ tweenEvents = 0
    /\ panicked = FALSE
    /\ pickups = 1
    /\ released = FALSE
    /\ tilesAtPickup = <<>>
    /\ despawnsRead = 0
    /\ tweensRead = 0
    /\ mainState = "Battle"
    /\ battleState = "PlayerTurn"
    /\ cardsState = "End"
    /\ tracked \in TrackedLists
    /\ active_spell \in {Some(Merge(<<a, b>>)) : a \in {FIRE, WAVE, RAY},
                                                 b \in {FIRE, WAVE, RAY}}
    /\ enemy_health \in {10, EnemyHealth}
    /\ player_health \in {5, PlayerMaxHealth - 5, PlayerMaxHealth}
    /\ enemy_alive = TRUE
    /\ enemy_animation = "idle"
    /\ enemyResolved = FALSE

NextAttack ==
    \/ player_attack
    \/ play_idle_animation
    \/ kill_enemies
    \/ start_outtro
    \/ end_player_turn
    \/ end_enemy_turn
    \/ die
    \/ stop_board
    \/ go_to_Select
    \/ start_merge
    \/ go_to_Discard
    \/ go_to_End

SpecAttack == InitAttack /\ [][NextAttack]_vars

\* One step of the battle's own systems, which run every frame: the turn
\* loop does not stop while one of them can act.  The cards wait for the
\* player.
TurnStep ==
    \/ player_attack
    \/ play_idle_animation
    \/ kill_enemies
    \/ start_outtro
    \/ end_player_turn
    \/ end_enemy_turn
    \/ die
    \/ stop_board

SpecAttackLive == SpecAttack /\ WF_vars(TurnStep)

\* A battle from the end of one player turn through the next: the board has
\* just been replaced by End with the groups of the turn tracked, the grid
\* is one on which the first swap of the next turn makes a match.
InitTurn ==
    /\ boardState = End
    /\ entering = TRUE
    /\ ticked = FALSE
    /\ tiles = [t \in Tile |-> InitialGem(t)]
    /\ gems = [g \in {InitialGem(t) : t \in Tile} |->
                 InitGrid(6)[CHOOSE t \in Tile : InitialGem(t) = g]]
    /\ swapping = [swaps |-> 2, gem |-> InitialGem(<<0, 0>>),
                   current_tile |-> <<0, 0>>, timer_finished |-> FALSE]
    /\ matches = <<>>
    /\ matchesUnread = FALSE
    /\ any_matches = FALSE
    /\ matching_waiting_for = 0
    /\ delayed = <<>>
    /\ despawnEvents = 0
    /\ fallEvents = <<>>
    /\ fallUnread = FALSE
    /\ falling_waiting_for = 0
    /\ tweens = <<>>
    /\ tweenEvents = 0
    /\ panicked = FALSE
    /\ pickups = 0
    /\ released = FALSE
    /\ tilesAtPickup = <<>>
    /\ despawnsRead = 0
    /\ tweensRead = 0
    /\ mainState = "Battle"
    /\ battleState = "PlayerTurn"
    /\ cardsState = "End"
    /\ tracked \in {l \in TrackedLists : Len(l) <= 1}
    /\ \E pair \in SelectedCards :
          active_spell = Some(Merge(<<PlayerSpells[pair[1]], PlayerSpells[pair[2]]>>))
    /\ enemy_health \in {10, EnemyHealth}
    /\ player_health \in {5, PlayerMaxHealth}
    /\ enemy_alive = TRUE
    /\ enemy_animation = "idle"
    /\ enemyResolved = FALSE

\* The turn loop together with the board.
NextTurn ==
    \/ NextAttack
    \/ \E t \in CursorTiles : pickup_gem(t)
    \/ \E closet \in CursorTiles : swap_gems(closet)
    \/ update_timer
    \/ \E drop \in BOOLEAN : drop_gem(drop)
    \/ BoardStep

SpecTurn == InitTurn /\ [][NextTurn]_vars

\* A battle from the app's start through its first player turn, and from
\* the end of a player turn through the next one.
InitBattle == Init \/ InitTurn

NextBattle ==
    \/ loaded
    \/ start_battle
    \/ intro
    \/ NextTurn

SpecBattle == InitBattle /\ [][NextBattle]_vars

\* stop_board runs in every frame outside the player turn: it is not put
\* off forever.
SpecStop == SpecBattle /\ WF_vars(stop_board)

\* ----------------------------------------------------------- properties
InitialGems == {InitialGem(t) : t \in Tile}
Disjoint(a, b) == a \cap b = {}

\* C1: every change of the board state is one of None->Ready,
\* Ready->Swapping, Swapping->Matching, Swapping->Ready, Matching->Falling,
\* Matching->End and Falling->Matching.
C1_Listed ==
    {<<None, Ready>>, <<Ready, Swapping>>, <<Swapping, Matching>>,
     <<Swapping, Ready>>, <<Matching, Falling>>, <<Matching, End>>,
     <<Falling, Matching>>}
C1_ListedTransitions ==
    [][boardState' # boardState => <<boardState, boardState'>> \in C1_Listed]_vars

\* C2: every detection pass reports its groups, the groups are pairwise
\* disjoint, and two runs that share a tile lie in one reported group.
C2_DisjointGroups ==
    boardState = Matching =>
        /\ ~panicked
        /\ \A i, j \in 1 .. Len(matches) :
              i # j => Disjoint(matches[i].tiles, matches[j].tiles)
        /\ (~entering /\ matchesUnread) =>
              \A a, b \in 1 .. Len(ScannedMatches) :
                 ~Disjoint(ScannedMatches[a].tiles, ScannedMatches[b].tiles) =>
                    \E i \in 1 .. Len(matches) :
                       ScannedMatches[a].tiles \cup ScannedMatches[b].tiles
                          \subseteq matches[i].tiles

\* C3: the board goes from Matching to Falling only when the pass of this
\* entry found a match and stop_matching has read one destroy completion
\* per matched tile; every matched tile's gem is then missing.
C3_FallingAfterDestroy ==
    [][(boardState = Matching /\ boardState' = Falling) =>
          /\ Len(matches) > 0
          /\ despawnsRead' = SumOfSizes(matches, 1)
          /\ DOMAIN delayed' = {}
          /\ \A t \in MatchedTiles : ~Alive(tiles[t])]_vars
C3_Witness ==
    /\ boardState = Falling /\ entering
    /\ Len(matches) > 0
    /\ despawnsRead = SumOfSizes(matches, 1)
    /\ \A t \in MatchedTiles : ~Alive(tiles[t])

\* C4: the board goes from Falling back to Matching only when stop_falling
\* has read as many fall completions as begin_fall sent Fall events at this
\* entry, and no Fall tween is still running.
C4_MatchingAfterFall ==
    [][(boardState = Falling /\ boardState' = Matching) =>
          /\ tweensRead' = Len(fallEvents)
          /\ DOMAIN tweens' = {}]_vars
C4_Witness ==
    /\ boardState = Matching /\ entering
    /\ Len(fallEvents) > 0
    /\ tweensRead = Len(fallEvents)

\* C5: with every completion delivered, each Matching phase and each
\* Falling phase is eventually left.
C5_PhasesExited ==
    /\ [](boardState = Matching => <>(boardState # Matching))
    /\ [](boardState = Falling => <>(boardState # Falling))

\* C6: in Ready every tile of the board references an alive gem (before
\* the board is spawned there is no tile).
C6_GridComplete ==
    boardState = Ready =>
        \/ tiles = <<>>
        \/ DOMAIN tiles = Tile /\ AllAlive
C6_Witness ==
    /\ boardState = Ready
    /\ DOMAIN tiles = Tile /\ AllAlive
    /\ \E t \in Tile : tiles[t] \notin InitialGems

\* C7: a detection pass that finds no match takes the board from Matching
\* to End.
C7_NoMatchGoesToEnd ==
    [][(/\ boardState = Matching /\ ~entering /\ matchesUnread
        /\ Len(matches) = 0
        /\ boardState' # Matching) => boardState' = End]_vars

\* C8: a phase whose counter starts at zero is left on its first update
\* tick: a Matching pass without matches, a Falling phase without Fall
\* events.
C8_ZeroAdvancesAtOnce ==
    [][/\ (/\ boardState = Matching /\ ~entering /\ ~panicked /\ matchesUnread
           /\ Len(matches) = 0) => boardState' # Matching
       /\ (/\ boardState = Falling /\ ~entering /\ ~panicked /\ fallUnread
           /\ Len(fallEvents) = 0) => boardState' # Falling]_vars
C8_Witness ==
    /\ boardState = Waiting /\ pickups > 0 /\ swapping.swaps > 0
    /\ matches = <<>> /\ ~matchesUnread
    /\ matching_waiting_for = 0 /\ despawnsRead = 0

\* C10: from a grid whose only match is the vertical run of column 2, rows
\* 0 to 2, one cycle destroys exactly 3 gems and sends exactly 3 Fall
\* events for column 2, and the pass after a refill without match takes the
\* board to End.
C10_Run == Run(<<2, 0>>, 2, 0, 1)
C10_FirstPass ==
    /\ Len(matches) = 1 /\ matches[1].tiles = C10_Run
    /\ DOMAIN gems \subseteq InitialGems
C10_Refilled ==
    /\ Cardinality(DOMAIN gems \cap InitialGems) = Cardinality(InitialGems) - 3
    /\ Cardinality(DOMAIN gems) = Cardinality(InitialGems)
C10_OneCycle ==
    [][/\ (boardState = Falling /\ entering /\ ~entering' /\ C10_FirstPass) =>
             /\ Cardinality(InitialGems \ DOMAIN gems) = 3
             /\ Cardinality({i \in 1 .. Len(fallEvents') :
                               fallEvents'[i].tile[1] = 2}) = 3
       /\ (/\ boardState = Matching /\ ~entering /\ matchesUnread
           /\ Len(matches) = 0 /\ C10_Refilled
           /\ boardState' # Matching) => boardState' = End]_vars

\* The rows of column x whose gem is missing, and the Fall events of column x.
Vacated(x) == {y \in Rows : ~Alive(tiles[<<x, y>>])}
ColumnEvents(x) == {i \in 1 .. Len(fallEvents) : fallEvents[i].tile[1] = x}
NewEvents(x) == {i \in ColumnEvents(x) : ~fallEvents[i].existing}
FallSent == boardState = Falling /\ ~entering /\ fallUnread
Max(a, b) == IF a >= b THEN a ELSE b

\* C9 as stated: a column with k vacated tiles and m remaining gems gets
\* exactly k Fall events, max(0, k - m) of them new.
C9_KAssignments ==
    FallSent =>
        \A x \in Columns :
           LET k == Cardinality(Vacated(x))
               m == BoardHeight - k
           IN /\ Cardinality(ColumnEvents(x)) = k
              /\ Cardinality(NewEvents(x)) = Max(0, k - m)

\* C9, amended: a column with k > 0 vacated tiles gets exactly one Fall
\* event for every tile from its lowest vacated tile upward, exactly k of
\* them new; a column without vacated tile gets none.
C9_FromLowestVacancy ==
    FallSent =>
        \A x \in Columns :
           LET k == Cardinality(Vacated(x))
               from == IF k = 0 THEN BoardHeight ELSE Min(Vacated(x))
           IN /\ {fallEvents[i].tile : i \in ColumnEvents(x)}
                    = {<<x, y>> : y \in from .. (BoardHeight - 1)}
              /\ Cardinality(ColumnEvents(x)) = BoardHeight - from
              /\ Cardinality(NewEvents(x)) = k
C9_Witness ==
    /\ FallSent
    /\ Vacated(0) = {1, 3}
    /\ Cardinality(ColumnEvents(0)) = 4
    /\ Cardinality(NewEvents(0)) = 2

\* ---------------------------------------------------------------- C11
\* C11 as stated: every drag session ends, released or not, whether or not
\* a swap has happened: the board never stays in Swapping forever.
C11_SessionEnds == (boardState = Swapping) ~> (boardState # Swapping)

\* C11, amended: a drag session in which a swap has happened ends, released
\* or not: the timer runs from the first swap and its expiry does the drop.
C11_SwappedSessionEnds ==
    (boardState = Swapping /\ swapping.swaps > 0) ~> (boardState # Swapping)
C11_Witness ==
    /\ boardState = Matching
    /\ entering
    /\ swapping.swaps > 0
    /\ swapping.timer_finished

\* ---------------------------------------------------------------- C12
\* Tiles next to each other in a row or a column.
Adjacent(t, u) ==
    \/ t[1] = u[1] /\ (t[2] = u[2] + 1 \/ u[2] = t[2] + 1)
    \/ t[2] = u[2] /\ (t[1] = u[1] + 1 \/ u[1] = t[1] + 1)

\* C12: whatever the grid, every group the match detector reports has at
\* least 3 tiles.
C12_MinimumLength ==
    \A i \in 1 .. Len(matches) : Cardinality(matches[i].tiles) >= MinMatch
C12_Witness ==
    /\ boardState = Matching
    /\ matchesUnread
    /\ Len(matches) = 1
    /\ \E t \in Region, u \in Region :
          /\ Adjacent(t, u)
          /\ gems[tiles[t]] = FigureElement
          /\ gems[tiles[u]] = FigureElement
          /\ {t, u} \cap MatchedTiles = {}

\* ---------------------------------------------------------------- C13
\* The straight segments of MinMatch tiles, all of one element.
Uniform(S) == \A t \in S, u \in S : gems[tiles[t]] = gems[tiles[u]]
HorizontalRuns ==
    {S \in {Run(t, MinMatch - 1, 1, 0) : t \in Tile} : S \subseteq Tile /\ Uniform(S)}
VerticalRuns ==
    {S \in {Run(t, MinMatch - 1, 0, 1) : t \in Tile} : S \subseteq Tile /\ Uniform(S)}
EndOf(c, S) == c \in S /\ Cardinality({u \in S : Adjacent(c, u)}) = 1

\* The grid holds one horizontal and one vertical run of 3 that share a
\* corner tile, and no other run.
LShaped(H, V) ==
    /\ HorizontalRuns = {H}
    /\ VerticalRuns = {V}
    /\ \E c \in H \cap V : EndOf(c, H) /\ EndOf(c, V)
DetectorRan == boardState = Matching /\ matchesUnread /\ AllAlive

\* C13: on a grid with an L-shaped figure of 5 tiles of one element and no
\* other run, the detector reports exactly one group, the 5 tiles.
C13_LShapeOneGroup ==
    DetectorRan =>
        \A H \in HorizontalRuns, V \in VerticalRuns :
            LShaped(H, V) =>
                /\ Len(matches) = 1
                /\ matches[1].tiles = H \cup V
                /\ Cardinality(matches[1].tiles) = 5
C13_Witness ==
    /\ DetectorRan
    /\ \E H \in HorizontalRuns, V \in VerticalRuns :
          LShaped(H, V) /\ <<MinMatch - 1, MinMatch - 1>> \in H \cap V
    /\ Len(matches) = 1
    /\ Cardinality(matches[1].tiles) = 5

\* ---------------------------------------------------------------- C14
\* The step is a pass of the match detector.
DetectionStep ==
    /\ boardState = Matching /\ entering /\ ~panicked
    /\ matchesUnread' \/ panicked'

C15_SwapCounter ==
    [][/\ (boardState # Swapping /\ boardState' = Swapping) =>
             swapping'.swaps = 0
       /\ (boardState = Swapping) =>
             /\ swapping'.swaps >= swapping.swaps
             /\ IF swapping'.current_tile # swapping.current_tile
                THEN swapping'.swaps = swapping.swaps + 1
                ELSE swapping'.swaps = swapping.swaps /\ tiles' = tiles]_vars
C15_Witness ==
    /\ boardState = Swapping
    /\ swapping.swaps = 2
    /\ swapping.current_tile # <<0, 0>>

\* ---------------------------------------------------------------- C16
\* C16: a drop with swaps = 0 takes the board back to Ready with the
\* dragged gem on the tile it was picked up from and every tile holding
\* the gem it held at pickup, and starts no match detection.
C16_ZeroSwapDrop ==
    [][(boardState = Swapping /\ swapping.swaps = 0 /\ boardState' # Swapping) =>
          /\ boardState' = Ready
          /\ tiles' = tilesAtPickup
          /\ tilesAtPickup[swapping'.current_tile] = swapping'.gem
          /\ tiles'[swapping'.current_tile] = swapping'.gem
          /\ ~entering'
          /\ matches' = matches /\ matchesUnread' = matchesUnread]_vars
C16_Witness ==
    /\ boardState = Ready
    /\ pickups = 1
    /\ released = FALSE
    /\ swapping.swaps = 0
    /\ swapping.gem # NoGem
    /\ tiles[swapping.current_tile] = swapping.gem
    /\ tiles = [t \in Tile |-> InitialGem(t)]

\* ---------------------------------------------------------------- C17
\* The gem picked up on tile (0,0) is over tile (0,0) again after two swaps:
\* it went to a neighbouring tile, (0,1), and back.
ThereAndBack ==
    /\ boardState = Swapping
    /\ tilesAtPickup[<<0, 0>>] = swapping.gem
    /\ swapping.current_tile = <<0, 0>>
    /\ swapping.swaps = 2

\* C17: after the drag (0,0) -> (0,1) -> (0,0) the grid equals the grid at
\* pickup with swaps = 2, and the drop that ends the session goes to
\* Matching, not to Ready.
C17_ThereAndBackMatches ==
    [][ThereAndBack =>
          /\ tiles = tilesAtPickup
          /\ boardState' # Swapping =>
                boardState' = Matching /\ entering' /\ tiles' = tilesAtPickup]_vars
C17_Witness ==
    /\ boardState = Matching
    /\ entering
    /\ swapping.swaps = 2
    /\ swapping.current_tile = <<0, 0>>
    /\ swapping.gem = InitialGem(<<0, 0>>)
    /\ tiles = [t \in Tile |-> InitialGem(t)]
    /\ ~swapping.timer_finished

\* ---------------------------------------------------------------- C18
\* Tile.gem of every tile, as a set, and whether no gem is there twice.
GemsOf(grid) == {grid[t] : t \in DOMAIN grid}
OneToOne(grid) == Cardinality(GemsOf(grid)) = Cardinality(DOMAIN grid)

\* The step exchanges the gems of current_tile and of another tile, which
\* becomes current_tile, and writes no third tile.
Exchange ==
    \E closet \in DOMAIN tiles \ {swapping.current_tile} :
        /\ swapping'.current_tile = closet
        /\ tiles'[closet] = tiles[swapping.current_tile]
        /\ tiles'[swapping.current_tile] = tiles[closet]
        /\ \A t \in DOMAIN tiles \ {closet, swapping.current_tile} :
              tiles'[t] = tiles[t]

\* C18: a step taken in Swapping either leaves every tile alone or is the
\* exchange of the gems of exactly two tiles, the closest tile and
\* current_tile; it creates and destroys no gem, so the gems of the grid
\* are a permutation of those at pickup.
C18_PureExchange ==
    [][boardState = Swapping =>
          /\ tiles' = tiles \/ Exchange
          /\ gems' = gems
          /\ DOMAIN tiles' = DOMAIN tilesAtPickup
          /\ GemsOf(tiles') = GemsOf(tilesAtPickup)
          /\ OneToOne(tiles')]_vars
C18_Witness ==
    /\ boardState = Swapping
    /\ swapping.swaps = 1
    /\ tiles # tilesAtPickup
    /\ GemsOf(tiles) = GemsOf(tilesAtPickup)
    /\ tiles[<<0, 0>>] = tilesAtPickup[<<0, 1>>]

\* ---------------------------------------------------------------- C19
\* No gem that is alive is the Tile.gem of two tiles.
NoSharedGem ==
    \A t \in DOMAIN tiles, u \in DOMAIN tiles :
        t # u /\ tiles[t] = tiles[u] => ~Alive(tiles[t])

\* The step applies the Fall events of the tick.
FallsApplied == boardState = Falling /\ fallUnread /\ ~fallUnread'

\* C19: in every state no alive gem is referenced by two tiles, and once
\* the Fall events of a tick have been applied a gem that was pulled down
\* is referenced by the tile of its Fall event and by no other.
C19_OneTilePerGem ==
    [][/\ NoSharedGem
       /\ NoSharedGem'
       /\ FallsApplied =>
             \A i \in 1 .. Len(fallEvents) :
                 fallEvents[i].existing =>
                     {t \in Tile : tiles'[t] = fallEvents[i].gem}
                        = {fallEvents[i].tile}]_vars
C19_Witness ==
    /\ boardState = Falling
    /\ ~fallUnread
    /\ \E i \in 1 .. Len(fallEvents) :
          /\ fallEvents[i].existing
          /\ fallEvents[i].tile = <<2, 0>>
          /\ tiles[<<2, 0>>] = InitialGem(<<2, 3>>)
    /\ NoSharedGem

\* ---------------------------------------------------------------- C20
\* The elements of the active spell, each once, and the tracked groups of
\* one of them.
SpellElements == {active_spell.elements[i] : i \in 1 .. Len(active_spell.elements)}
GroupsOfSpell == {i \in 1 .. Len(tracked) : tracked[i].element \in SpellElements}
RECURSIVE SizesOf(_)
SizesOf(I) ==
    IF I = {} THEN 0
    ELSE LET i == CHOOSE j \in I : TRUE
         IN Cardinality(tracked[i].tiles) + SizesOf(I \ {i})

\* The step is the attack run on entry to End.
EndEntered == boardState = End /\ entering /\ ~entering'

\* C20: the attack on entry to End takes from the enemy's health (down to
\* 0 at most) the sizes of the tracked groups whose element is one of the
\* spell's, added up, times the spell's attack; the health changes in no
\* other step, so the damage is applied once per entry.
C20_DamageOnce ==
    [][/\ EndEntered =>
             enemy_health' =
                Max(0, enemy_health - SizesOf(GroupsOfSpell) * active_spell.attack)
       /\ enemy_health' # enemy_health => EndEntered]_vars
C20_Witness ==
    /\ boardState = End
    /\ ~entering
    /\ battleState = "PlayerTurn"
    /\ active_spell.elements = <<"Fire", "Fire">>
    /\ Len(tracked) = 2
    /\ tracked[1].element = "Fire" /\ Cardinality(tracked[1].tiles) = 3
    /\ tracked[2].element = "Water"
    /\ enemy_health = EnemyHealth - 3 * active_spell.attack

\* ---------------------------------------------------------------- C21
\* C21: the enemy's health stays between 0 and its max_health and the
\* player's between 0 and max_health: an attack larger than the health
\* left gives 0, healing stops at max_health.
C21_HealthInRange ==
    /\ enemy_health \in 0 .. EnemyHealth
    /\ player_health \in 0 .. PlayerMaxHealth
C21_Witness ==
    /\ boardState = End
    /\ ~entering
    /\ battleState = "PlayerTurn"
    /\ Damage(active_spell, tracked) > 10
    /\ enemy_health = 0
    /\ Heal(tracked) > 5
    /\ player_health = PlayerMaxHealth

\* ---------------------------------------------------------------- C22
\* C22: once the enemy's health is 0 the battle goes to Outtro and does
\* not enter PlayerTurn again; once the player's health is 0 the battle
\* state goes to None and the board does not enter Ready again.
C22_Terminal ==
    /\ [][/\ (enemy_health = 0 /\ battleState # "PlayerTurn") =>
                battleState' # "PlayerTurn"
          /\ (player_health = 0 /\ boardState # Ready) => boardState' # Ready
          /\ (player_health = 0 /\ battleState \notin TurnLoop) =>
                battleState' \notin TurnLoop]_vars
    /\ (enemy_health = 0) ~> (battleState = "Outtro")
    /\ (player_health = 0) ~> (battleState = "None")
C22_Witness ==
    /\ battleState = "Outtro"
    /\ enemy_health = 0
    /\ ~enemy_alive
    /\ enemyResolved
    /\ boardState = None

\* ---------------------------------------------------------------- C23
\* C23: when the board enters Ready after an entry to End, EnemyTurn has
\* been entered in between, and the step that entered it applied the
\* enemy's attack to the player.
C23_EnemyBeforeReady ==
    [][/\ (boardState # Ready /\ boardState' = Ready) => enemyResolved'
       /\ (~enemyResolved /\ enemyResolved') =>
             /\ battleState = "PlayerTurn" /\ battleState' = "EnemyTurn"
             /\ enemy_alive => player_health' = Max(0, player_health - EnemyAttack)]_vars
C23_Witness ==
    /\ boardState = Ready
    /\ battleState = "PlayerTurn"
    /\ cardsState = "End"
    /\ enemyResolved
    /\ enemy_alive
    /\ player_health = PlayerMaxHealth - EnemyAttack

\* ---------------------------------------------------------------- C24
\* C24: the destroy counter changes only in a tick of Matching, by the
\* tiles of the groups read minus the DestroyGem despawns read; the fall
\* counter changes only in a tick of Falling, by the Fall events read minus
\* the Fall tween completions read.  So a completion of one kind never
\* changes the other counter, and a completion of another kind changes
\* neither.
C24_CountersIndependent ==
    [][/\ matching_waiting_for' # matching_waiting_for =>
             /\ boardState = Matching
             /\ falling_waiting_for' = falling_waiting_for
             /\ matching_waiting_for' =
                   matching_waiting_for - despawnEvents
                      + (IF matchesUnread THEN Cardinality(MatchedTiles) ELSE 0)
       /\ falling_waiting_for' # falling_waiting_for =>
             /\ boardState = Falling
             /\ matching_waiting_for' = matching_waiting_for
             /\ falling_waiting_for' =
                   falling_waiting_for - tweenEvents
                      + (IF fallUnread THEN Len(fallEvents) ELSE 0)
       /\ (boardState = Matching /\ ~entering /\ ~matchesUnread /\ despawnEvents = 0) =>
             matching_waiting_for' = matching_waiting_for
       /\ (boardState = Falling /\ ~entering /\ ~fallUnread /\ tweenEvents = 0) =>
             falling_waiting_for' = falling_waiting_for]_vars
C24_Witness ==
    /\ boardState = Matching
    /\ ticked
    /\ despawnsRead > 0
    /\ matching_waiting_for > 0
    /\ falling_waiting_for = 0

\* ---------------------------------------------------------------- C25
\* C25: a left release read while the board is not in Swapping changes
\* nothing: not the board state, not a tile's gem, not a counter, and it
\* raises no panic.
C25_ReleaseNoOp ==
    [][(boardState # Swapping /\ ~released /\ released') =>
          /\ UNCHANGED <<boardState, entering, ticked, tiles, gems, swapping>>
          /\ UNCHANGED <<matching_waiting_for, falling_waiting_for, panicked>>
          /\ UNCHANGED <<matches, matchesUnread, any_matches, delayed, despawnEvents>>
          /\ UNCHANGED <<fallEvents, fallUnread, tweens, tweenEvents>>]_vars
C25_Witness ==
    /\ released
    /\ ~panicked
    /\ boardState = Matching
    /\ swapping.swaps > 0
    /\ matching_waiting_for > 0

\* ---------------------------------------------------------------- C26
\* The gems of column x that are alive, bottom to top.
Survivors(x) == SelectSeq([i \in 1 .. BoardHeight |-> tiles[<<x, i - 1>>]], Alive)

\* The tick of Falling that applies the Fall events of begin_fall.
FallsApply == boardState = Falling /\ ~entering /\ fallUnread /\ ~fallUnread'

\* C26: applying the Fall events compacts every column: the gems that are
\* left take the lowest rows in their order from the bottom, and exactly the
\* rows above them get gems spawned in this tick, for every pattern of
\* missing gems.
C26_GravityCompaction ==
    [][FallsApply =>
          \A x \in Columns :
             LET kept == Survivors(x) IN
             \A y \in Rows :
                IF y < Len(kept)
                THEN tiles'[<<x, y>>] = kept[y + 1]
                ELSE /\ tiles'[<<x, y>>] \notin DOMAIN gems
                     /\ tiles'[<<x, y>>] \in DOMAIN gems'
                     /\ \A t \in Tile : tiles'[t] = tiles'[<<x, y>>] => t = <<x, y>>]_vars

\* Rows 1 and 3 of column 0 were missing: the gems of rows 2 and 4 came down
\* to rows 1 and 2 and rows 3 and 4 got new gems.
C26_Witness ==
    /\ boardState = Falling
    /\ ~fallUnread
    /\ AllAlive
    /\ {<<fallEvents[i].tile[2], fallEvents[i].existing>> : i \in ColumnEvents(0)}
          = {<<1, TRUE>>, <<2, TRUE>>, <<3, FALSE>>, <<4, FALSE>>}
    /\ \A i \in ColumnEvents(0) :
          fallEvents[i].existing => tiles[fallEvents[i].tile] = fallEvents[i].gem

\* ---------------------------------------------------------------- C27
\* C27: on every grid the pass of the match detector completes and sends
\* its groups: the merge loop removes and inserts inside the list only, also
\* when three or more runs chain together.
C27_DetectionCompletes ==
    [][(boardState = Matching /\ entering /\ ~panicked /\ AllAlive
          /\ <<matches, matchesUnread, panicked>>' # <<matches, matchesUnread, panicked>>)
          => (~panicked' /\ matchesUnread' /\ ~entering')]_vars

\* ---------------------------------------------------------------- C28
\* The matched tiles whose gem delayed_despawn has not taken yet.
MatchedAlive == {t \in MatchedTiles : Alive(tiles[t])}

Destroyed == DOMAIN gems \ DOMAIN gems'
VacantTiles == {t \in Tile : ~Alive(tiles[t])}

\* C29: a gem is despawned only during a Matching pass and only if it sits
\* on a tile of a group the pass reported; when the pass is left the gems
\* gone are exactly those of the reported groups, one despawn read for each.
C29_DestroyedAreMatched ==
    [][/\ Destroyed # {} =>
             /\ boardState = Matching /\ ~entering
             /\ Destroyed \subseteq {tiles[t] : t \in MatchedTiles}
       /\ (boardState = Matching /\ boardState' # Matching) =>
             /\ VacantTiles' = MatchedTiles
             /\ despawnsRead' = Cardinality(MatchedTiles)]_vars
C29_Witness ==
    /\ boardState = Falling /\ entering
    /\ Len(matches) >= 2
    /\ VacantTiles = MatchedTiles
    /\ despawnsRead = Cardinality(MatchedTiles)
    /\ tweensRead > 0

\* ---------------------------------------------------------------- C30
\* The tiles that lie in a straight run of at least MinMatch tiles of one
\* element.
TilesInRuns == UNION (HorizontalRuns \cup VerticalRuns)

\* C30: on every grid the tiles of the groups the detector reports are
\* exactly the tiles that lie in a horizontal or vertical run of at least 3
\* tiles of one element.
C30_GroupsAreRuns ==
    (boardState = Matching /\ AllAlive /\ (matchesUnread \/ panicked)) =>
        MatchedTiles = TilesInRuns

\* ---------------------------------------------------------------- C31
\* The tiles the Fall events name, and the step that is begin_fall.
EventTiles == {fallEvents[i].tile : i \in 1 .. Len(fallEvents)}
FallBegins == boardState = Falling /\ entering /\ ~entering'

\* The tiles of column x at or above its lowest missing tile.
FromLowestVacancy(x) ==
    IF Vacated(x) = {} THEN {}
    ELSE {<<x, y>> : y \in Min(Vacated(x)) .. (BoardHeight - 1)}

\* C31: begin_fall sends exactly one Fall event for every tile at or above
\* the lowest missing tile of its column and none for another tile; a tile
\* without event (below the lowest vacancy, or in a column without vacancy)
\* keeps its gem through the Falling phase.
C31_OnePerTileFromVacancy ==
    [][/\ FallBegins =>
             /\ EventTiles' = UNION {FromLowestVacancy(x) : x \in Columns}
             /\ Len(fallEvents') = Cardinality(EventTiles')
       /\ boardState = Falling =>
             \A t \in Tile \ EventTiles' : tiles'[t] = tiles[t]]_vars
C31_Witness ==
    /\ boardState = Matching /\ entering
    /\ tweensRead = Len(fallEvents)
    /\ {fallEvents[i].tile[2] : i \in ColumnEvents(0)} = {2, 3, 4}
    /\ tiles[<<0, 0>>] = InitialGem(<<0, 0>>)
    /\ tiles[<<0, 1>>] = InitialGem(<<0, 1>>)
    /\ ColumnEvents(BoardWidth - 1) = {}
    /\ tiles[<<BoardWidth - 1, 4>>] = InitialGem(<<BoardWidth - 1, 4>>)

\* ---------------------------------------------------------------- C32
\* C32: every Fall event moves its gem down inside one column: an existing
\* gem is alive and rests on a higher tile of the column of the event's
\* tile, no gem is named by two events, a new gem starts above the top row,
\* and the distance of every fall is a whole number of rows, at least 1.
C32_StrictlyDownward ==
    FallSent =>
        \A i \in 1 .. Len(fallEvents) :
           LET e == fallEvents[i] IN
           /\ e.existing =>
                 /\ Alive(e.gem)
                 /\ \E r \in Rows : r > e.tile[2] /\ tiles[<<e.tile[1], r>>] = e.gem
                 /\ \A j \in 1 .. Len(fallEvents) :
                       (j # i /\ fallEvents[j].existing) => fallEvents[j].gem # e.gem
           /\ ~e.existing => (BoardHeight - 1) + e.height > BoardHeight - 1
           /\ FallDistance(i) \in 1 .. (2 * BoardHeight)
C32_Witness ==
    /\ FallSent
    /\ \E i \in ColumnEvents(0), j \in ColumnEvents(0) :
          /\ fallEvents[i].existing /\ FallDistance(i) = 2
          /\ ~fallEvents[j].existing /\ FallDistance(j) = 3

\* ---------------------------------------------------------------- C33
\* C33: the n new gems of a column go to its top n tiles and get the start
\* heights 1 to n from the lowest of these tiles to the highest, in the
\* order of the events; the count starts again for every column.
C33_HeightsPerColumn ==
    FallSent =>
        \A x \in Columns :
           LET n == Cardinality(NewEvents(x)) IN
           /\ {fallEvents[i].tile : i \in NewEvents(x)}
                 = {<<x, y>> : y \in (BoardHeight - n) .. (BoardHeight - 1)}
           /\ \A i \in NewEvents(x) :
                 /\ fallEvents[i].height = fallEvents[i].tile[2] - (BoardHeight - n) + 1
                 /\ fallEvents[i].height = Cardinality({j \in NewEvents(x) : j <= i})
C33_Witness ==
    /\ FallSent
    /\ \E i \in NewEvents(0), j \in NewEvents(0), k \in NewEvents(1) :
          /\ fallEvents[i].height = 1 /\ fallEvents[i].tile = <<0, BoardHeight - 2>>
          /\ fallEvents[j].height = 2 /\ fallEvents[j].tile = <<0, BoardHeight - 1>>
          /\ i < j /\ j < k
          /\ fallEvents[k].height = 1

\* ---------------------------------------------------------------- C34
\* C34: from the pickup to the drop of a drag session, the tile recorded as
\* current_tile references the dragged gem: after the pickup, after every
\* swap and when the session is left.
C34_CurrentTileHoldsGem ==
    [][(boardState = Swapping \/ boardState' = Swapping) =>
          /\ swapping'.current_tile \in DOMAIN tiles'
          /\ tiles'[swapping'.current_tile] = swapping'.gem]_vars
C34_Witness ==
    /\ boardState = Matching /\ entering
    /\ swapping.swaps = 1
    /\ tiles[swapping.current_tile] = swapping.gem
    /\ swapping.gem # InitialGem(swapping.current_tile)
    /\ tilesAtPickup = <<>>

\* ---------------------------------------------------------------- C35
\* The steps of battle.rs that touch the Matches resource.
TurnStarts == battleState # "PlayerTurn" /\ battleState' = "PlayerTurn"
PassTracked ==
    /\ battleState = "PlayerTurn" /\ boardState = Matching /\ ~entering
    /\ matchesUnread /\ ~matchesUnread'
AttackStep == boardState = End /\ entering /\ ~entering'

\* C35: the list is emptied when a player turn starts, the groups of every
\* detection pass of the turn are appended to it when they are read (as
\* long as the list stays within MaxTracked), nothing else changes it, and
\* the damage and the heal on entry to End are computed from this list.
C35_GroupsOfThisTurn ==
    [][/\ TurnStarts => tracked' = <<>>
       /\ (PassTracked /\ Len(tracked) + Len(matches) <= MaxTracked) =>
             tracked' = tracked \o matches
       /\ tracked' # tracked => (TurnStarts \/ PassTracked)
       /\ AttackStep =>
             /\ tracked' = tracked
             /\ enemy_health' =
                   IF enemy_alive
                   THEN Max(0, enemy_health - Damage(active_spell, tracked))
                   ELSE enemy_health
             /\ player_health' =
                   Min({PlayerMaxHealth, player_health + Heal(tracked)})]_vars

\* The second turn: the Fire group of the first turn did its damage and is
\* gone from the list, which holds the group of the first pass and the group
\* of the cascade pass of this turn.
C35_Witness ==
    /\ battleState = "PlayerTurn" /\ enemyResolved
    /\ enemy_health = EnemyHealth - MinMatch * active_spell.attack
    /\ boardState = Matching /\ ~entering /\ ~matchesUnread
    /\ tweensRead > 0
    /\ Len(matches) = 1
    /\ Len(tracked) = 2
    /\ tracked[2] = matches[1]
    /\ tracked[1].element = FigureElement

\* The step on which the cards enter End in the player turn, the step on
\* which the board becomes Ready, and the pickup.
CardsEnd == cardsState = "Discard" /\ cardsState' = "End" /\ battleState = "PlayerTurn"
EntersReady == boardState # Ready /\ boardState' = Ready
PickedUp == boardState # Swapping /\ boardState' = Swapping
CardsOrder ==
    {<<"None", "Draw">>, <<"End", "Draw">>, <<"Draw", "Select">>, <<"Select", "Merge">>,
     <<"Merge", "Discard">>, <<"Discard", "End">>}

Armed == {Ready, Swapping, Matching, Falling, End}

\* C37: whenever the board is in End during PlayerTurn, and already from
\* the moment the board of the turn is armed, in the first turn as in every
\* later one, the player has an active composed spell; player_attack never
\* finds it missing.
C37_SpellComposed ==
    /\ (battleState = "PlayerTurn" /\ boardState \in Armed) => active_spell.some
    /\ ~(panicked /\ boardState = End)

\* The attack has been computed on entry to End and has hurt the enemy.
C37_Witness ==
    /\ battleState = "PlayerTurn" /\ boardState = End /\ ~entering
    /\ ~panicked
    /\ active_spell.some
    /\ enemy_animation = "hurt"

\* C38: once the health of the enemy is 0 no step takes health from the
\* player, and the enemy does not play its attack, whether the battle goes
\* on to EnemyTurn (end_player_turn) or to Outtro (start_outtro).
C38_DeadEnemyNeverAttacks ==
    [][enemy_health = 0 =>
          /\ player_health' >= player_health
          /\ enemy_animation' = "attack" => enemy_animation = "attack"]_vars

\* end_player_turn took effect first: the battle is in EnemyTurn with the
\* enemy killed and the player, who started the turn unhurt, still unhurt.
C38_Witness ==
    /\ battleState = "EnemyTurn"
    /\ enemy_health = 0 /\ ~enemy_alive
    /\ enemyResolved
    /\ player_health = PlayerMaxHealth

\* The battle is in Intro, EnemyTurn, Outtro, End or None.
OutsideTurn == battleState # "PlayerTurn"

\* What the pickup, the swaps, the detection pass and the fall work on.
boardVars ==
    <<swapping, pickups, tilesAtPickup, matches, matchesUnread, any_matches,
      matching_waiting_for, fallEvents, fallUnread, falling_waiting_for>>

\* C39: outside PlayerTurn the board state changes to None only, the board
\* gets to None, and it leaves None only when the cards enter End in
\* PlayerTurn; no step outside PlayerTurn is a pickup, a swap, a detection
\* pass or a fall step: the tiles, the gems of a spawned board, the drag
\* session, the matches and the fall events stay as they are.
C39_BoardStopped ==
    /\ [][OutsideTurn =>
             /\ boardState' \in {boardState, None}
             /\ UNCHANGED boardVars
             /\ tiles # <<>> => UNCHANGED <<tiles, gems>>]_vars
    /\ [][(boardState = None /\ boardState' # None) =>
             (CardsEnd /\ boardState' = Ready)]_vars
    /\ [](OutsideTurn =>
             (boardState \in {None, End} \/ (boardState = Ready /\ tiles = <<>>)))
    /\ (OutsideTurn ~> boardState = None)

\* The enemy turn after a player turn: stop_board has taken the spawned
\* board from End to None.
C39_Witness ==
    /\ battleState = "EnemyTurn" /\ enemyResolved
    /\ boardState = None
    /\ tiles # <<>>

====
